---- MODULE Spec2Model ----
(***************************************************************************)
(* dh-400jdbc: connection-pool lifecycle and statement-execution           *)
(* orchestration.                                                          *)
(*                                                                         *)
(* Specification Spec models the current module surface, src/index.js on   *)
(* top of class JDBC (src/lib/jdbc.js, lines 1-455).  Every JDBC method is *)
(* synchronous (the *Sync driver calls), so a public call runs to its      *)
(* callback in one step, except runTransaction, whose body is caller code: *)
(* the body runs as steps of the environment between the call and the      *)
(* finally block of runTransaction.                                        *)
(*                                                                         *)
(* Specification SpecLegacy models class JDBCConn (src/lib/dh-400jdbc.js),  *)
(* the earlier driver object, whose driver calls are asynchronous: every   *)
(* driver callback is a step of its own.                                   *)
(*                                                                         *)
(* Specification SpecMarshal applies the trimming functions and the        *)
(* result-row marshallers of both to column values and cursors drawn from  *)
(* bounded sets, and the insert-statement builders to parameters objects.  *)
(*                                                                         *)
(* Specification SpecTest models testConnection of                         *)
(* src/lib/jdbcUtilities.js, which runs initialize, execute and close on a *)
(* JDBCConn instance of its own.                                           *)
(*                                                                         *)
(* The driver (java bridge, JT400 pool, connections, statements) is the    *)
(* environment: every driver call either returns or throws, chosen         *)
(* nondeterministically.                                                   *)
(***************************************************************************)
EXTENDS Integers, Sequences, FiniteSets, TLC

\* ------------------------------------------------------------------ bounds
MaxCalls == 3       \* public calls made in one behaviour
MaxParams == 1      \* length of a parameter list
MaxRows == 1        \* rows of a cursor

\* ------------------------------------------------------------------ values
NoErr == "none"                       \* callback(), callback(null)
MaintenanceError == "MaintenanceModeError"
TypeError == "TypeError"
ReferenceError == "ReferenceError"
BodyError == "BodyError"              \* the error a transaction body hands to done
ThrownError == "ThrownError"          \* the error a transaction body throws

\* The error a driver call throws, named after the call.
ErrorOf(ev) == ev

NoRes == [kind |-> "none", rows |-> <<>>]
Rows(r) == [kind |-> "rows", rows |-> r]

\* options objects handed to initialize; initialPoolCount is <<n>> or <<>> (unset)
Configs ==
  { [host |-> "h1", libraries |-> "L1", username |-> "u1", password |-> "p1",
     secure |-> TRUE, initialPoolCount |-> <<2>>],
    [host |-> "h2", libraries |-> "L2", username |-> "u2", password |-> "p2",
     secure |-> FALSE, initialPoolCount |-> <<>>] }

ParamLists == UNION { [1..n -> {"v"}] : n \in 0..MaxParams }

VARIABLES
  preventQueries,   \* index.js: the prevention flag
  jdbc,             \* index.js: the JDBC instance (exists = FALSE: null)
  dataSources,      \* driver: pool data source objects created so far
  pools,            \* driver: connection pool objects created so far
  conns,            \* driver: connection handles, by the call that borrowed them
  frame,            \* the runTransaction call whose body is on the stack (0: none)
  last,             \* what the caller saw of the most recent public call
  calls,            \* public calls made so far
  self,             \* dh-400jdbc.js: the JDBCConn instance
  tasks             \* dh-400jdbc.js: the calls made, each with its pending driver callback

vars == <<preventQueries, jdbc, dataSources, pools, conns, frame, last, calls, self, tasks>>

\* ------------------------------------------------------------ JDBC instance
NoJdbc ==
  [exists |-> FALSE, host |-> "", libraries |-> "", username |-> "", password |-> "",
   user |-> "undefined", initialPoolCount |-> <<>>, poolDataSource |-> 0, pool |-> 0,
   connected |-> FALSE]

\* new JDBC(options): the defaults, then every key of options copied over them
JDBC_constructor(options) ==
  [exists |-> TRUE,
   poolDataSource |-> 0,
   pool |-> 0,
   connected |-> FALSE,
   user |-> "undefined",
   host |-> options.host,
   libraries |-> options.libraries,
   username |-> options.username,
   password |-> options.password,
   initialPoolCount |-> options.initialPoolCount]

\* The pool the facade currently refers to is there and was filled.
Ready(j) == j.exists /\ j.pool # 0 /\ pools[j.pool].filled

\* Connections on loan from pool p.
OnLoan(p) == Cardinality({c \in DOMAIN conns : conns[c].pool = p /\ ~conns[c].released})

LoanOf(j) == IF j.exists /\ j.pool # 0 THEN OnLoan(j.pool) ELSE 0

\* ------------------------------------------------------ what the caller saw
Cb(e, r) == [err |-> e, res |-> r]

Before ==
  [ready |-> Ready(jdbc), pool |-> jdbc.pool, npools |-> Len(pools),
   nsources |-> Len(dataSources), loan |-> LoanOf(jdbc), gate |-> preventQueries]

\* A call that has returned to its caller: the callback invocations it made, the
\* exception it threw at its caller (if any), the connection it borrowed.
Seen(op, cb, threw, c, b) ==
  [op |-> op, cb |-> cb, threw |-> threw, conn |-> c, before |-> b, returned |-> TRUE]

\* A runTransaction call whose body is on the stack.
Running(op, c, b) ==
  [op |-> op, cb |-> <<>>, threw |-> NoErr, conn |-> c, before |-> b, returned |-> FALSE]

\* Connection records of finished work are dropped when the next call starts:
\* what stays is on loan (its log dropped), or belongs to a transaction still
\* waiting for done.
Live == {c \in DOMAIN conns : ~conns[c].released \/ conns[c].done = "pending"}

Kept ==
  [c \in Live |-> IF conns[c].done = "pending" \/ conns[c].body = "running"
                   THEN conns[c]
                   ELSE [conns[c] EXCEPT !.log = <<>>, !.body = "none", !.done = "n/a",
                                         !.cb = <<>>,
                                         !.call = [parameters |-> <<>>, binds |-> <<>>,
                                                   produced |-> 0]]]

\* f extended (or overwritten) at x
Put(f, x, v) == [y \in DOMAIN f \cup {x} |-> IF y = x THEN v ELSE f[y]]

\* The gate answering and switching the flag off again.
Gated_clearsFlag(op) ==
  /\ last' = Seen(op, <<Cb(MaintenanceError, NoRes)>>, NoErr, 0, Before)
  /\ preventQueries' = FALSE
  /\ UNCHANGED <<jdbc, dataSources, pools, conns, frame, self, tasks>>

Gated(op) ==
  /\ last' = Seen(op, <<Cb(MaintenanceError, NoRes)>>, NoErr, 0, Before)
  /\ UNCHANGED <<preventQueries, jdbc, dataSources, pools, conns, frame, self, tasks>>

\* jdbc is null: jdbc.<method>(...) throws out of the facade, no callback
NoDriver(op) ==
  /\ last' = Seen(op, <<>>, TypeError, 0, Before)
  /\ UNCHANGED <<preventQueries, jdbc, dataSources, pools, conns, frame, self, tasks>>

\* ------------------------------------------------ dh-400jdbc.js: JDBCConn
NotInitialized == "Driver not initialized."
InvalidParameterType == "Invalid parameter type specified"

\* this._config: {} after construction, null after kill, the config after initialize
NoConfig ==
  [serverName |-> "", libraries |-> "", user |-> "", password |-> "", secure |-> FALSE,
   initialPoolCount |-> <<>>]

LegacyConfigs ==
  { [serverName |-> "h1", libraries |-> "L1", user |-> "u1", password |-> "p1",
     secure |-> FALSE, initialPoolCount |-> <<2>>],
    [serverName |-> "h2", libraries |-> "L2", user |-> "u2", password |-> "p2",
     secure |-> TRUE, initialPoolCount |-> <<3>>] }

JDBCConn_constructor ==
  [config |-> [is |-> "empty", value |-> NoConfig],
   connectionPoolDataSource |-> 0,
   connectionPool |-> 0]

kill(s) ==
  [s EXCEPT !.config = [is |-> "null", value |-> NoConfig],
            !.connectionPoolDataSource = 0,
            !.connectionPool = 0]

isInitialized(s) ==
  s.config.is # "null" /\ s.connectionPoolDataSource # 0 /\ s.connectionPool # 0

\* A call of a JDBCConn method: pc is the driver callback it waits for
\* ("finished": it has called back; "uncaught": an exception left a driver
\* callback, nothing more happens), held: its connection is on loan, quiet: no
\* other call was waiting for a driver callback when this one was made.
Task(op, pc, config) ==
  [op |-> op, pc |-> pc, config |-> config, source |-> 0, pool |-> 0, held |-> FALSE,
   done |-> "n/a", log |-> <<>>, cb |-> <<>>,
   quiet |-> \A j \in 1..Len(tasks) : tasks[j].pc \in {"finished", "uncaught"}]

\* the call invokes its callback with e and is finished
Finished(t, e) == [t EXCEPT !.pc = "finished", !.cb = Append(t.cb, e)]

\* ------------------------------------------------------------------- Init
Init ==
  /\ preventQueries = FALSE
  /\ jdbc = NoJdbc
  /\ dataSources = <<>>
  /\ pools = <<>>
  /\ conns = [c \in {} |-> 0]
  /\ frame = 0
  /\ last = Seen("none", <<>>, NoErr, 0,
                 [ready |-> FALSE, pool |-> 0, npools |-> 0, nsources |-> 0,
                  loan |-> 0, gate |-> FALSE])
  /\ calls = 0
  /\ self = JDBCConn_constructor
  /\ tasks = <<>>

\* No public call starts while a transaction body is on the stack, except the
\* calls the body itself makes.
Idle == frame = 0 /\ calls < MaxCalls

\* ------------------------------------------------------- index.js: the flag
setPreventQueries(prevent) ==
  /\ preventQueries' = prevent
  /\ UNCHANGED <<jdbc, dataSources, pools, conns, frame, last, calls, self, tasks>>

\* index.js getPreventQueries: what a caller reads
getPreventQueries == preventQueries

\* ------------------------------------------------------ JDBC.connect
ConnectSteps == <<"newDataSource", "setLibraries", "newPool", "fill">>

\* The driver objects after connect ran up to failing step f (0: none failed).
\* The data source is built from this.host, this.user and this.password (the
\* constructor stored the name under username); secure is <<>>: connect makes no
\* setSecureSync call.
JDBC_connect(j, f) ==
  LET madeSource == f # 1
      madePool == f = 0 \/ f > 3
      ds == [host |-> j.host, user |-> j.user, password |-> j.password,
             libraries |-> IF f = 0 \/ f > 2 THEN j.libraries ELSE "",
             secure |-> <<>>]
      srcs == IF madeSource THEN Append(dataSources, ds) ELSE dataSources
      pl == [source |-> Len(srcs), fill |-> IF f = 0 THEN j.initialPoolCount ELSE <<>>,
             filled |-> f = 0, closed |-> FALSE]
      pls == IF madePool THEN Append(pools, pl) ELSE pools
  IN IF j.connected
       THEN [jdbc |-> j, dataSources |-> dataSources, pools |-> pools, err |-> NoErr]
       ELSE [jdbc |-> [j EXCEPT !.poolDataSource = IF madeSource THEN Len(srcs) ELSE 0,
                                !.pool = IF madePool THEN Len(pls) ELSE 0],
             dataSources |-> srcs,
             pools |-> pls,
             err |-> IF f = 0 THEN NoErr ELSE ErrorOf(ConnectSteps[f])]

\* index.js initialize: a new JDBC instance every time, then connect
initialize(options, f) ==
  /\ Idle
  /\ calls' = calls + 1
  /\ LET r == JDBC_connect(JDBC_constructor(options), f)
     IN /\ jdbc' = r.jdbc
        /\ dataSources' = r.dataSources
        /\ pools' = r.pools
        /\ last' = Seen("initialize", <<Cb(r.err, NoRes)>>, NoErr, 0, Before)
  /\ conns' = Kept
  /\ UNCHANGED <<preventQueries, frame, self, tasks>>

\* ------------------------------------------------------ JDBC.close
\* The pool after close: closed by the driver only when the instance is connected.
JDBC_close(j, closeFails) ==
  IF ~j.connected
    THEN [pools |-> pools, err |-> NoErr]
    ELSE [pools |-> IF closeFails \/ j.pool = 0 THEN pools
                    ELSE [pools EXCEPT ![j.pool].closed = TRUE],
          err |-> IF j.pool = 0 THEN TypeError
                  ELSE IF closeFails THEN ErrorOf("closePool") ELSE NoErr]

\* index.js closeAll
closeAll(closeFails) ==
  /\ Idle
  /\ calls' = calls + 1
  /\ IF ~jdbc.exists
       THEN NoDriver("closeAll")
       ELSE LET r == JDBC_close(jdbc, closeFails)
            IN /\ pools' = r.pools
               /\ last' = Seen("closeAll", <<Cb(r.err, NoRes)>>, NoErr, 0, Before)
               /\ conns' = Kept
               /\ UNCHANGED <<preventQueries, jdbc, dataSources, frame, self, tasks>>

\* ------------------------------------------------- statements: the driver
Ev(e, ok) == [ev |-> e, ok |-> ok]

\* What a callable statement was given: the descriptors, the arguments of the
\* setObjectSync / registerOutParameterSync calls, and the result sets the
\* procedure produced.
NoCall == [parameters |-> <<>>, binds |-> <<>>, produced |-> 0]

\* A borrowed connection handle.
Conn(p, ac, rel, log) ==
  [pool |-> p, autoCommit |-> ac, released |-> rel, log |-> log,
   body |-> "none", done |-> "n/a", cb |-> <<>>, before |-> Before, call |-> NoCall]

\* The auto-commit setting a handle borrowed from pool p starts with: the pool
\* hands out the connection returned to it last, with the setting it was
\* returned with; "default" is the driver's setting of a connection never used.
Inherited(p) ==
  LET returned == {c \in DOMAIN conns : conns[c].pool = p /\ conns[c].released}
  IN IF returned = {} THEN "default"
     ELSE conns[CHOOSE c \in returned : \A d \in returned : d <= c].autoCommit

\* steps[1] is the acquire, the rest run on the connection; step f throws
\* (0: none does).  The events on the connection, in order.
TryLog(steps, f) ==
  [i \in 1..((IF f = 0 THEN Len(steps) ELSE f) - 1) |-> Ev(steps[i + 1], i + 1 # f)]

\* try { if (statement) statement.closeSync(); if (connection) connection.closeSync(); }
\* catch (e) { log }: a throwing statement close skips the connection close.
FinallyLog(hasStmt, hasConn, sf, cf) ==
  (IF hasStmt THEN <<Ev("closeStatement", ~sf)>> ELSE <<>>)
    \o (IF hasConn /\ ~(hasStmt /\ sf) THEN <<Ev("release", ~cf)>> ELSE <<>>)

FinallyReleased(hasStmt, hasConn, sf, cf) == hasConn /\ ~(hasStmt /\ sf) /\ ~cf

\* JDBC.executeQuery and the like with the setAutoCommitSync(true) call left out
TryFinally_keepsAutoCommit(j, steps, f, err, sf, cf) ==
  LET hasConn == j.pool # 0 /\ f # 1
      hasStmt == hasConn /\ (f = 0 \/ f > 3)
  IN [has |-> hasConn,
      conn |-> Conn(j.pool,
                    Inherited(j.pool),
                    FinallyReleased(hasStmt, hasConn, sf, cf),
                    IF hasConn THEN TryLog(steps, f) \o FinallyLog(hasStmt, hasConn, sf, cf)
                    ELSE <<>>),
      err |-> IF j.pool = 0 THEN TypeError ELSE err]

\* The same shape with the inner catch handing the close error to the callback.
TryFinally_closeErrorWins(j, steps, f, err, sf, cf) ==
  LET hasConn == j.pool # 0 /\ f # 1
      hasStmt == hasConn /\ (f = 0 \/ f > 3)
  IN [has |-> hasConn,
      conn |-> Conn(j.pool,
                    IF hasConn /\ (f = 0 \/ f > 2) THEN "true" ELSE Inherited(j.pool),
                    FinallyReleased(hasStmt, hasConn, sf, cf),
                    IF hasConn THEN TryLog(steps, f) \o FinallyLog(hasStmt, hasConn, sf, cf)
                    ELSE <<>>),
      err |-> IF j.pool = 0 THEN TypeError
              ELSE IF hasStmt /\ sf THEN ErrorOf("closeStatement")
              ELSE IF hasConn /\ cf THEN ErrorOf("release")
              ELSE err]

\* The try / catch / finally shape shared by executeQuery, executeStatement and
\* executeStoredProcedure: steps, the step f that throws and the error err it
\* throws, whether closing the statement (sf) or the connection (cf) throws.
\* steps[3] prepares the statement.
TryFinally(j, steps, f, err, sf, cf) ==
  LET hasConn == j.pool # 0 /\ f # 1
      hasStmt == hasConn /\ (f = 0 \/ f > 3)
  IN [has |-> hasConn,
      conn |-> Conn(j.pool,
                    IF hasConn /\ (f = 0 \/ f > 2) THEN "true" ELSE Inherited(j.pool),
                    FinallyReleased(hasStmt, hasConn, sf, cf),
                    IF hasConn THEN TryLog(steps, f) \o FinallyLog(hasStmt, hasConn, sf, cf)
                    ELSE <<>>),
      err |-> IF j.pool = 0 THEN TypeError ELSE err]

Binds(n) == [i \in 1..n |-> "setObject"]

\* ------------------------------------------------- column values, trimming
\* What getStringSync hands back for a column: a string (its characters, in
\* order) or null.
Null == [is |-> "null", chars |-> <<>>]
Str(s) == [is |-> "string", chars |-> s]

MaxChars == 3       \* characters of a column value

\* the characters \s matches, and one it does not
Whitespace == {" ", "\n"}
Chars == Whitespace \cup {"A"}
Strings == UNION { [1..n -> Chars] : n \in 0..MaxChars }

\* s.replace(/^\s\s*/, '')
RECURSIVE TrimStart(_)
TrimStart(s) ==
  IF s # <<>> /\ Head(s) \in Whitespace THEN TrimStart(Tail(s)) ELSE s

\* s.replace(/\s\s*$/, '')
RECURSIVE TrimEnd(_)
TrimEnd(s) ==
  IF s # <<>> /\ s[Len(s)] \in Whitespace THEN TrimEnd(SubSeq(s, 1, Len(s) - 1)) ELSE s

\* utilities.js trimValue: `if (str)` is false for null and for the empty
\* string, and the result then stays null.
trimValue(str) ==
  IF str.is = "string" /\ str.chars # <<>>
    THEN Str(TrimEnd(TrimStart(str.chars)))
    ELSE Null

\* dh-400jdbc.js trim1: the same function under its earlier name
trim1(str) ==
  IF str.is = "string" /\ str.chars # <<>>
    THEN Str(TrimEnd(TrimStart(str.chars)))
    ELSE Null

\* ------------------------------------------------- cursors, the marshaller
\* A result set as the driver returns it: the column names of its metadata in
\* column order and, per row, the column values in column order; or no result
\* set at all (null).
NullCursor == [null |-> TRUE, columns |-> <<>>, rows |-> <<>>]
Cursor(columns, rows) == [null |-> FALSE, columns |-> columns, rows |-> rows]

\* The cursors a query of Spec gets back: null, or n rows (their columns are
\* left out).
QueryCursors ==
  {NullCursor} \cup {Cursor(<<>>, [i \in 1..n |-> <<>>]) : n \in 0..MaxRows}

\* The column loop keeping the first column of a name instead of the last.
RECURSIVE getResults_columns_firstWins(_, _, _, _)
getResults_columns_firstWins(row, columns, values, i) ==
  IF i > Len(columns) THEN row
  ELSE getResults_columns_firstWins(
         IF columns[i] \in DOMAIN row THEN row
         ELSE Put(row, columns[i], trimValue(values[i])),
         columns, values, i + 1)

\* for (i = 1; i <= cc; i++) row[key_i] = trimValue(rs.getStringSync(i))
RECURSIVE getResults_columns(_, _, _, _)
getResults_columns(row, columns, values, i) ==
  IF i > Len(columns) THEN row
  ELSE getResults_columns(Put(row, columns[i], trimValue(values[i])), columns, values, i + 1)

\* jdbc.js getResults: rs.getMetaDataSync() on a null rs throws a TypeError;
\* otherwise one record per row, its columns assigned in column order and then
\* its 'index'.
getResults(rs) ==
  IF rs.null
    THEN [threw |-> TypeError, results |-> <<>>]
    ELSE [threw |-> NoErr,
          results |-> [j \in 1..Len(rs.rows) |->
                        Put(getResults_columns([k \in {} |-> 0], rs.columns, rs.rows[j], 1),
                            "index", j - 1)]]

\* for (i = 1; i <= cc; i++) row[colname_i] = trim1(rs.getStringSync(i))
RECURSIVE getResultsFromResultSet_columns(_, _, _, _)
getResultsFromResultSet_columns(row, columns, values, i) ==
  IF i > Len(columns) THEN row
  ELSE getResultsFromResultSet_columns(Put(row, columns[i], trim1(values[i])),
                                       columns, values, i + 1)

\* dh-400jdbc.js getResultsFromResultSet: finished(null, []) when there is no
\* result set; otherwise as getResults.
getResultsFromResultSet(rs) ==
  IF rs.null
    THEN [err |-> NoErr, results |-> <<>>]
    ELSE [err |-> NoErr,
          results |-> [j \in 1..Len(rs.rows) |->
                        Put(getResultsFromResultSet_columns([k \in {} |-> 0], rs.columns,
                                                            rs.rows[j], 1),
                            "index", j - 1)]]

QuerySteps(parameters) ==
  <<"getConnection", "setAutoCommit", "prepareStatement">>
    \o Binds(Len(parameters)) \o <<"executeQuery", "getResults">>

\* JDBC.executeQuery; rs: the cursor executeQuerySync returns.  The last step,
\* getResults(rs), throws when a driver call in it does (f) or when rs is null.
JDBC_executeQuery(j, parameters, f, sf, cf, rs) ==
  LET steps == QuerySteps(parameters)
      m == getResults(rs)
      g == IF f = 0 /\ m.threw # NoErr THEN Len(steps) ELSE f
      r == TryFinally(j, steps, g, IF f # 0 THEN ErrorOf(steps[f]) ELSE m.threw, sf, cf)
  IN [has |-> r.has, conn |-> r.conn,
      cb |-> <<Cb(r.err, Rows(IF r.err = NoErr THEN m.results ELSE <<>>))>>]

UpdateSteps(parameters) ==
  <<"getConnection", "setAutoCommit", "prepareStatement">>
    \o Binds(Len(parameters)) \o <<"executeUpdate">>

\* JDBC.executeStatement
JDBC_executeStatement(j, parameters, f, sf, cf) ==
  LET steps == UpdateSteps(parameters)
      r == TryFinally(j, steps, f, IF f = 0 THEN NoErr ELSE ErrorOf(steps[f]), sf, cf)
  IN [has |-> r.has, conn |-> r.conn, cb |-> <<Cb(r.err, NoRes)>>]

\* A call that went through to the driver object returns: its connection (if it
\* borrowed one) and its callback invocations are recorded.
Deliver(op, r) ==
  /\ conns' = IF r.has THEN Put(Kept, calls + 1, r.conn) ELSE Kept
  /\ last' = Seen(op, r.cb, NoErr, IF r.has THEN calls + 1 ELSE 0, Before)
  /\ UNCHANGED <<preventQueries, jdbc, dataSources, pools, frame, self, tasks>>

\* executeSqlString with the test of preventQueries left out (as in
\* jdbcUtilities.js, which has no flag)
executeSqlString_ungated(f, sf, cf, rs) ==
  /\ Idle
  /\ calls' = calls + 1
  /\ IF ~jdbc.exists THEN NoDriver("executeSqlString")
     ELSE Deliver("executeSqlString", JDBC_executeQuery(jdbc, <<>>, f, sf, cf, rs))

\* index.js executeSqlString
executeSqlString(f, sf, cf, rs) ==
  /\ Idle
  /\ calls' = calls + 1
  /\ IF preventQueries THEN Gated("executeSqlString")
     ELSE IF ~jdbc.exists THEN NoDriver("executeSqlString")
     ELSE Deliver("executeSqlString", JDBC_executeQuery(jdbc, <<>>, f, sf, cf, rs))

\* index.js executePreparedStatement
executePreparedStatement(parameters, f, sf, cf, rs) ==
  /\ Idle
  /\ calls' = calls + 1
  /\ IF preventQueries THEN Gated("executePreparedStatement")
     ELSE IF ~jdbc.exists THEN NoDriver("executePreparedStatement")
     ELSE Deliver("executePreparedStatement",
                  JDBC_executeQuery(jdbc, parameters, f, sf, cf, rs))

\* index.js executeUpdatePreparedStatement
executeUpdatePreparedStatement(parameters, f, sf, cf) ==
  /\ Idle
  /\ calls' = calls + 1
  /\ IF preventQueries THEN Gated("executeUpdatePreparedStatement")
     ELSE IF ~jdbc.exists THEN NoDriver("executeUpdatePreparedStatement")
     ELSE Deliver("executeUpdatePreparedStatement",
                  JDBC_executeStatement(jdbc, parameters, f, sf, cf))

\* ------------------------------------------------------ stored procedures
MaxResultSets == 1  \* result sets a procedure produces

\* parameter descriptors: createSPInputParameter, createSPOutputParameter, and one
\* with an unknown type tag
Descriptors ==
  { [type |-> "in", value |-> "v", fieldName |-> "", dataType |-> ""],
    [type |-> "out", value |-> "", fieldName |-> "F", dataType |-> "T"],
    [type |-> "inout", value |-> "v", fieldName |-> "F", dataType |-> "T"] }

DescriptorLists == UNION { [1..n -> Descriptors] : n \in 0..MaxParams }

HasOutput(parameters) == \E i \in 1..Len(parameters) : parameters[i].type = "out"

\* resultObj: null until the procedure has executed; outputs: the fieldName
\* entries read back (none: the first read names statemnt and throws)
ProcRes(made, hasSets, sets) ==
  [kind |-> IF made THEN "proc" ELSE "null", rows |-> <<>>, hasSets |-> hasSets,
   sets |-> sets, outputs |-> <<>>]

\* The argument of the bind call made for parameters[i]: an output descriptor's
\* dataType is registered; for any other descriptor setObjectSync gets
\* parameters[i], the descriptor itself.
ProcBind(parameters, i) ==
  IF parameters[i].type = "out"
    THEN [pos |-> i, call |-> "registerOutParameter", of |-> "dataType",
          arg |-> parameters[i].dataType]
    ELSE [pos |-> i, call |-> "setObject", of |-> "descriptor",
          arg |-> parameters[i].value]

\* The driver calls of executeStoredProcedure's try block for a procedure that
\* produced k result sets.  Reading an output parameter names the undeclared
\* variable statemnt; the drain loop runs only when getResultSetSync returned null.
ProcSteps(parameters, k) ==
  <<"getConnection", "setAutoCommit", "prepareCall">>
    \o [i \in 1..Len(parameters) |->
          IF parameters[i].type = "out" THEN "registerOutParameter" ELSE "setObject"]
    \o <<"execute">>
    \o (IF HasOutput(parameters) THEN <<"statemnt">>
        ELSE <<"getResultSet">> \o (IF k = 0 THEN <<"getResults">> ELSE <<>>))

\* The step that throws whatever the driver does (0: none).
ProcForced(parameters, k) ==
  IF HasOutput(parameters) \/ k = 0 THEN Len(ProcSteps(parameters, k)) ELSE 0

\* JDBC.executeStoredProcedure
JDBC_executeStoredProcedure(j, parameters, f, sf, cf, k) ==
  LET steps == ProcSteps(parameters, k)
      g == ProcForced(parameters, k)
      ff == IF f = 0 THEN g ELSE f
      err == IF ff = 0 THEN NoErr
             ELSE IF ff = g /\ HasOutput(parameters) THEN ReferenceError
             ELSE IF ff = g THEN TypeError
             ELSE ErrorOf(steps[ff])
      r == TryFinally(j, steps, ff, err, sf, cf)
      executed == r.has /\ (ff = 0 \/ ff > 4 + Len(parameters))
      gotSet == executed /\ ~HasOutput(parameters) /\ (ff = 0 \/ ff > 5 + Len(parameters))
      nbinds == IF ~r.has \/ ff \in 1..3 THEN 0
                ELSE IF ff = 0 \/ ff > 3 + Len(parameters) THEN Len(parameters)
                ELSE ff - 3
  IN [has |-> r.has,
      conn |-> [r.conn EXCEPT !.call = [parameters |-> parameters,
                                        binds |-> [i \in 1..nbinds |->
                                                     ProcBind(parameters, i)],
                                        produced |-> IF executed THEN k ELSE 0]],
      cb |-> <<Cb(r.err, ProcRes(executed, gotSet /\ k = 0, <<>>))>>]

\* index.js executeStoredProcedure
executeStoredProcedure(parameters, f, sf, cf, k) ==
  /\ Idle
  /\ calls' = calls + 1
  /\ IF preventQueries THEN Gated("executeStoredProcedure")
     ELSE IF ~jdbc.exists THEN NoDriver("executeStoredProcedure")
     ELSE Deliver("executeStoredProcedure",
                  JDBC_executeStoredProcedure(jdbc, parameters, f, sf, cf, k))

\* ------------------------------------------------------------ transactions
\* The connections a transaction body holds: the one whose body is on the stack,
\* and those whose body returned without having called done.
Held == {c \in DOMAIN conns : c = frame \/ (frame = 0 /\ conns[c].done = "pending")}

InTxSteps(parameters) ==
  <<"prepareStatement">> \o Binds(Len(parameters)) \o <<"executeUpdate">>

\* executeStatementInTransaction committing the statement it ran
JDBC_executeStatementInTransaction_commits(cn, parameters, f, sf) ==
  LET steps == InTxSteps(parameters)
      ff == IF cn.released THEN 1 ELSE f
      ran == [i \in 1..(IF ff = 0 THEN Len(steps) ELSE ff) |-> Ev(steps[i], i # ff)]
  IN [log |-> cn.log \o ran \o (IF ff = 0 THEN <<Ev("commit", TRUE)>> ELSE <<>>)
                \o (IF ff # 1 THEN <<Ev("closeStatement", ~sf)>> ELSE <<>>),
      cb |-> IF ff = 0 THEN <<Cb(NoErr, NoRes), Cb(NoErr, NoRes)>>
             ELSE <<Cb(ErrorOf(steps[ff]), NoRes)>>]

\* JDBC.executeStatementInTransaction on connection handle cn: the events on the
\* connection and the callback invocations.  Step f throws (0: none); a released
\* handle is closed, so preparing on it throws.  On success the callback is
\* invoked in the try block and again in the finally block.
JDBC_executeStatementInTransaction(cn, parameters, f, sf) ==
  LET steps == InTxSteps(parameters)
      ff == IF cn.released THEN 1 ELSE f
      ran == [i \in 1..(IF ff = 0 THEN Len(steps) ELSE ff) |-> Ev(steps[i], i # ff)]
      hasStmt == ff # 1
  IN [log |-> cn.log \o ran \o (IF hasStmt THEN <<Ev("closeStatement", ~sf)>> ELSE <<>>),
      cb |-> IF ff = 0 THEN <<Cb(NoErr, NoRes), Cb(NoErr, NoRes)>>
             ELSE <<Cb(ErrorOf(steps[ff]), NoRes)>>]

\* index.js executeUpdateStatementInTransaction, called by a transaction body with
\* the connection c it was given
executeUpdateStatementInTransaction(c, parameters, f, sf) ==
  /\ calls < MaxCalls
  /\ c \in Held
  /\ calls' = calls + 1
  /\ IF preventQueries THEN Gated("executeUpdateStatementInTransaction")
     ELSE IF ~jdbc.exists THEN NoDriver("executeUpdateStatementInTransaction")
     ELSE LET r == JDBC_executeStatementInTransaction(conns[c], parameters, f, sf)
          IN /\ conns' = [conns EXCEPT ![c].log = r.log]
             /\ last' = Seen("executeUpdateStatementInTransaction", r.cb, NoErr, c, Before)
             /\ UNCHANGED <<preventQueries, jdbc, dataSources, pools, frame, self, tasks>>

\* The finally block of JDBC.runTransaction on connection record cn: the connection
\* is closed (cf: the close throws) and the callback gets error.
TxFinally(cn, error, cf) ==
  [cn EXCEPT !.released = ~cf,
             !.log = cn.log \o <<Ev("release", ~cf), Ev("callback", TRUE)>>,
             !.cb = Append(cn.cb, error)]

\* JDBC.runTransaction up to the call of executeFunction: step f throws (0: none).
\* When the acquire or setAutoCommit throws, the catch and finally blocks run and
\* the call returns; otherwise the body is on the stack.
JDBC_runTransaction(j, f, cf) ==
  LET steps == <<"getConnection", "setAutoCommit">>
      hasConn == j.pool # 0 /\ f # 1
      err == IF j.pool = 0 THEN TypeError ELSE IF f = 0 THEN NoErr ELSE ErrorOf(steps[f])
      cn == [Conn(j.pool, IF f = 0 THEN "false" ELSE Inherited(j.pool), FALSE,
                  TryLog(steps, f))
               EXCEPT !.body = IF f = 0 THEN "running" ELSE "none"]
  IN [has |-> hasConn,
      entered |-> hasConn /\ f = 0,
      conn |-> IF hasConn /\ f = 0 THEN [cn EXCEPT !.log = cn.log \o <<Ev("body", TRUE)>>]
               ELSE TxFinally(cn, err, cf),
      cb |-> <<Cb(err, NoRes)>>]

\* index.js runTransaction
runTransaction(f, cf) ==
  /\ Idle
  /\ calls' = calls + 1
  /\ IF preventQueries THEN Gated("runTransaction")
     ELSE IF ~jdbc.exists THEN NoDriver("runTransaction")
     ELSE LET r == JDBC_runTransaction(jdbc, f, cf)
          IN IF r.entered
               THEN /\ conns' = Put(Kept, calls + 1, r.conn)
                    /\ frame' = calls + 1
                    /\ last' = Running("runTransaction", calls + 1, Before)
                    /\ UNCHANGED <<preventQueries, jdbc, dataSources, pools, self, tasks>>
               ELSE Deliver("runTransaction", r)

\* The done callback runTransaction hands to the body: rollback when err is set,
\* commit otherwise; ok: the driver call returns rather than throws.  A released
\* handle is closed, so the call throws.
Done(cn, err, ok) ==
  LET okk == ok /\ ~cn.released
  IN [conn |-> [cn EXCEPT !.done = err,
                          !.log = cn.log \o <<Ev(IF err # NoErr THEN "rollback" ELSE "commit",
                                                 okk)>>],
      threw |-> IF okk THEN NoErr
                ELSE IF err # NoErr THEN ErrorOf("rollback") ELSE ErrorOf("commit")]

\* runTransaction returns to its caller: the body is off the stack.
Return(cn) ==
  /\ conns' = [conns EXCEPT ![frame] = cn]
  /\ frame' = 0
  /\ last' = Seen("runTransaction", <<Cb(cn.cb[Len(cn.cb)], NoRes)>>, NoErr, frame,
                  cn.before)
  /\ UNCHANGED <<preventQueries, jdbc, dataSources, pools, calls, self, tasks>>

\* The body calls done(err) before it returns.  An exception out of done passes
\* through the body into the catch block of runTransaction.
BodyDone(err, ok, cf) ==
  /\ frame # 0
  /\ LET d == Done([conns[frame] EXCEPT !.body = "done"], err, ok)
         error == IF d.threw # NoErr THEN d.threw ELSE err
     IN Return(TxFinally(d.conn, error, cf))

\* The body calls done(err) and, that call having returned, done(err2) before it
\* returns: the handler runs again on the same connection, and its assignment to
\* error stands when err2 is set.
BodyDoneTwice(err, err2, ok2, cf) ==
  /\ frame # 0
  /\ LET d1 == Done([conns[frame] EXCEPT !.body = "done"], err, TRUE)
         d2 == Done(d1.conn, err2, ok2)
         error == IF d2.threw # NoErr THEN d2.threw
                  ELSE IF err2 # NoErr THEN err2 ELSE err
     IN Return(TxFinally(d2.conn, error, cf))

\* The body throws before it has called done.
BodyThrow(cf) ==
  /\ frame # 0
  /\ Return(TxFinally([conns[frame] EXCEPT !.body = "throw", !.done = "never"],
                      ThrownError, cf))

\* The body returns without having called done: it will call it from a later
\* asynchronous step.
BodyReturn(cf) ==
  /\ frame # 0
  /\ Return(TxFinally([conns[frame] EXCEPT !.body = "defer", !.done = "pending"],
                      NoErr, cf))

\* The deferred call of done(err), after runTransaction has returned.
DeferredDone(c, err, ok) ==
  /\ frame = 0
  /\ c \in DOMAIN conns
  /\ conns[c].done = "pending"
  /\ conns' = [conns EXCEPT ![c] = Done(conns[c], err, ok).conn]
  /\ UNCHANGED <<preventQueries, jdbc, dataSources, pools, frame, last, calls, self, tasks>>

Next ==
  \/ \E b \in BOOLEAN : setPreventQueries(b)
  \/ \E o \in Configs, f \in 0..Len(ConnectSteps) : initialize(o, f)
  \/ \E cf \in BOOLEAN : closeAll(cf)
  \/ \E f \in 0..Len(QuerySteps(<<>>)), sf, cf \in BOOLEAN, rs \in QueryCursors :
       executeSqlString(f, sf, cf, rs)
  \/ \E p \in ParamLists, sf, cf \in BOOLEAN, rs \in QueryCursors :
       \E f \in 0..Len(QuerySteps(p)) : executePreparedStatement(p, f, sf, cf, rs)
  \/ \E p \in ParamLists, sf, cf \in BOOLEAN :
       \E f \in 0..Len(UpdateSteps(p)) : executeUpdatePreparedStatement(p, f, sf, cf)
  \/ \E p \in DescriptorLists, sf, cf \in BOOLEAN, k \in 0..MaxResultSets :
       \E f \in 0..Len(ProcSteps(p, k)) : executeStoredProcedure(p, f, sf, cf, k)
  \/ \E f \in 0..2, cf \in BOOLEAN : runTransaction(f, cf)
  \/ \E c \in DOMAIN conns, p \in ParamLists, sf \in BOOLEAN :
       \E f \in 0..Len(InTxSteps(p)) : executeUpdateStatementInTransaction(c, p, f, sf)
  \/ \E err \in {NoErr, BodyError}, ok, cf \in BOOLEAN : BodyDone(err, ok, cf)
  \/ \E err, err2 \in {NoErr, BodyError}, ok2, cf \in BOOLEAN :
       BodyDoneTwice(err, err2, ok2, cf)
  \/ \E cf \in BOOLEAN : BodyThrow(cf)
  \/ \E cf \in BOOLEAN : BodyReturn(cf)
  \/ \E c \in DOMAIN conns, err \in {NoErr, BodyError}, ok \in BOOLEAN :
       DeferredDone(c, err, ok)

Spec == Init /\ [][Next]_vars

\* ================================================== dh-400jdbc.js (JDBCConn)
\* Specification SpecLegacy models class JDBCConn (src/lib/dh-400jdbc.js), whose
\* driver calls are asynchronous: a method starts a task, and each driver
\* callback is a step of its own, so the callbacks of different calls interleave.
facadeVars == <<preventQueries, jdbc, conns, frame, last>>

MaxTasks == 2       \* JDBCConn method calls made in one behaviour

Start(t) ==
  /\ calls < MaxTasks
  /\ calls' = calls + 1
  /\ tasks' = Append(tasks, t)

Step(i, t) == tasks' = [tasks EXCEPT ![i] = t]

Waiting(i, pc) == i \in 1..Len(tasks) /\ tasks[i].pc = pc

\* JDBCConn.prototype.initialize, up to the first java.newInstance
JDBCConn_initialize(config) ==
  /\ IF isInitialized(self)
       THEN /\ Start(Finished(Task("initialize", "start", config), NoErr))
            /\ UNCHANGED self
       ELSE /\ Start(Task("initialize", "newDataSource", config))
            /\ self' = [self EXCEPT !.config = [is |-> "set", value |-> config]]
  /\ UNCHANGED <<dataSources, pools, facadeVars>>

\* the callback of java.newInstance(connectionPoolDataSourceName, ...): err, or the
\* data source; throws: the call of the try block that throws (0: none,
\* 1: setLibrariesSync, 2: setSecureSync).  The libraries are those of the config
\* this call was given, the secure flag is read from self._config, the config of
\* the latest call; self._config.secure throws when a kill has set _config to
\* null.
initialize_onDataSource(i, err, throws) ==
  /\ Waiting(i, "newDataSource")
  /\ LET t == tasks[i]
         noConfig == self.config.is = "null"
         thr == IF throws # 1 /\ noConfig THEN 2 ELSE throws
         ds == [host |-> t.config.serverName, user |-> t.config.user,
                password |-> t.config.password,
                libraries |-> IF thr = 1 THEN "" ELSE t.config.libraries,
                secure |-> IF thr = 0 THEN self.config.value.secure ELSE FALSE]
     IN IF err
          THEN /\ self' = kill(self)
               /\ Step(i, Finished(t, ErrorOf("newDataSource")))
               /\ UNCHANGED dataSources
          ELSE /\ dataSources' = Append(dataSources, ds)
               /\ IF thr # 0
                    THEN /\ self' = kill(self)
                         /\ Step(i, Finished(t, IF thr = 1 THEN ErrorOf("setLibraries")
                                                ELSE IF noConfig THEN TypeError
                                                ELSE ErrorOf("setSecure")))
                    ELSE /\ self' = [self EXCEPT !.connectionPoolDataSource =
                                                   Len(dataSources) + 1]
                         /\ Step(i, [t EXCEPT !.pc = "newPool",
                                              !.source = Len(dataSources) + 1])
  /\ UNCHANGED <<pools, calls, facadeVars>>

\* the callback of java.newInstance(connectionPoolName, ...): err, or the pool,
\* which is then filled.  self._config.initialPoolCount throws when a kill has
\* set _config to null.
initialize_onPool(i, err, fillThrows) ==
  /\ Waiting(i, "newPool")
  /\ LET t == tasks[i]
         noConfig == self.config.is = "null"
         filled == ~fillThrows /\ ~noConfig
         pl == [source |-> t.source,
                fill |-> IF filled THEN self.config.value.initialPoolCount ELSE <<>>,
                filled |-> filled, closed |-> FALSE]
     IN IF err
          THEN /\ self' = kill(self)
               /\ Step(i, Finished(t, ErrorOf("newPool")))
               /\ UNCHANGED pools
          ELSE /\ pools' = Append(pools, pl)
               /\ IF filled
                    THEN /\ self' = [self EXCEPT !.connectionPool = Len(pools) + 1]
                         /\ Step(i, Finished(t, NoErr))
                    ELSE /\ self' = kill(self)
                         /\ Step(i, Finished(t, IF noConfig THEN TypeError
                                                ELSE ErrorOf("fill")))
  /\ UNCHANGED <<dataSources, calls, facadeVars>>

\* close keeping the references when the driver's close throws
JDBCConn_close_keepsOnError(closeThrows) ==
  /\ self' = IF self.connectionPool # 0 /\ closeThrows THEN self ELSE kill(self)
  /\ IF self.connectionPool = 0
       THEN /\ Start(Finished(Task("close", "start", NoConfig), NoErr))
            /\ UNCHANGED pools
       ELSE IF closeThrows
       THEN /\ Start(Finished(Task("close", "start", NoConfig), ErrorOf("closePool")))
            /\ UNCHANGED pools
       ELSE /\ Start(Finished(Task("close", "start", NoConfig), NoErr))
            /\ pools' = [pools EXCEPT ![self.connectionPool].closed = TRUE]
  /\ UNCHANGED <<dataSources, facadeVars>>

\* JDBCConn.prototype.close
JDBCConn_close(closeThrows) ==
  /\ self' = kill(self)
  /\ IF self.connectionPool = 0
       THEN /\ Start(Finished(Task("close", "start", NoConfig), NoErr))
            /\ UNCHANGED pools
       ELSE IF closeThrows
       THEN /\ Start(Finished(Task("close", "start", NoConfig), ErrorOf("closePool")))
            /\ UNCHANGED pools
       ELSE /\ Start(Finished(Task("close", "start", NoConfig), NoErr))
            /\ pools' = [pools EXCEPT ![self.connectionPool].closed = TRUE]
  /\ UNCHANGED <<dataSources, facadeVars>>

\* JDBCConn.prototype.reInitialize with the default closing of the pool left
\* out: initialize alone, which skips when the driver is initialized
JDBCConn_reInitialize_noClose(newConfig, closeThrows) ==
  /\ IF isInitialized(self)
       THEN /\ Start(Finished([Task("reInitialize", "start", newConfig)
                                 EXCEPT !.pool = self.connectionPool], NoErr))
            /\ UNCHANGED self
       ELSE /\ Start([Task("reInitialize", "newDataSource", newConfig)
                        EXCEPT !.pool = self.connectionPool])
            /\ self' = [self EXCEPT !.config = [is |-> "set", value |-> newConfig]]
  /\ UNCHANGED <<dataSources, pools, facadeVars>>

\* JDBCConn.prototype.reInitialize handing a close error to its callback
\* instead of going on to initialize
JDBCConn_reInitialize_stopsOnCloseError(newConfig, closeThrows) ==
  /\ IF self.connectionPool # 0 /\ closeThrows
       THEN /\ Start(Finished([Task("reInitialize", "start", newConfig)
                                 EXCEPT !.pool = self.connectionPool,
                                        !.log = <<Ev("closePool", FALSE)>>],
                              ErrorOf("closePool")))
            /\ self' = kill(self)
            /\ UNCHANGED pools
       ELSE /\ Start([Task("reInitialize", "newDataSource", newConfig)
                        EXCEPT !.pool = self.connectionPool,
                               !.log = IF self.connectionPool = 0 THEN <<>>
                                       ELSE <<Ev("closePool", TRUE)>>])
            /\ self' = [kill(self) EXCEPT !.config = [is |-> "set", value |-> newConfig]]
            /\ pools' = IF self.connectionPool = 0 THEN pools
                        ELSE [pools EXCEPT ![self.connectionPool].closed = TRUE]
  /\ UNCHANGED <<dataSources, facadeVars>>

\* JDBCConn.prototype.reInitialize: close (its error is logged), whose callback
\* runs at once and calls initialize(newConfig) up to the first java.newInstance;
\* close has killed the references, so initialize never skips.  pool: the pool
\* that was referred to when the call was made.
JDBCConn_reInitialize(newConfig, closeThrows) ==
  /\ Start([Task("reInitialize", "newDataSource", newConfig)
              EXCEPT !.pool = self.connectionPool,
                     !.log = IF self.connectionPool = 0 THEN <<>>
                             ELSE <<Ev("closePool", ~closeThrows)>>])
  /\ self' = [kill(self) EXCEPT !.config = [is |-> "set", value |-> newConfig]]
  /\ pools' = IF self.connectionPool = 0 \/ closeThrows THEN pools
              ELSE [pools EXCEPT ![self.connectionPool].closed = TRUE]
  /\ UNCHANGED <<dataSources, facadeVars>>

\* Connections on loan from pool p.
LegacyOnLoan(p) ==
  Cardinality({i \in 1..Len(tasks) : tasks[i].held /\ tasks[i].pool = p})

\* JDBCConn.prototype.runTransaction, up to getConnection
JDBCConn_runTransaction ==
  /\ IF ~isInitialized(self)
       THEN Start(Finished(Task("runTransaction", "start", NoConfig), NotInitialized))
       ELSE Start([Task("runTransaction", "getConnection", NoConfig)
                     EXCEPT !.pool = self.connectionPool])
  /\ UNCHANGED <<self, dataSources, pools, facadeVars>>

\* the callback of getConnection: err (always, from a closed pool), or the
\* connection; then setAutoCommitSync(false), outside any try block (acThrows: it
\* throws out of the driver callback), then the body gets the connection.
runTransaction_onConnection(i, err, acThrows) ==
  /\ Waiting(i, "getConnection")
  /\ LET t == tasks[i]
     IN IF err \/ pools[t.pool].closed
          THEN Step(i, Finished(t, ErrorOf("getConnection")))
          ELSE IF acThrows
          THEN Step(i, [t EXCEPT !.pc = "uncaught", !.held = TRUE,
                                 !.log = <<Ev("setAutoCommit", FALSE)>>])
          ELSE Step(i, [t EXCEPT !.pc = "body", !.held = TRUE,
                                 !.log = <<Ev("setAutoCommit", TRUE), Ev("body", TRUE)>>])
  /\ UNCHANGED <<self, dataSources, pools, calls, facadeVars>>

\* the body calls done(err), now or at a later step: rollback or commit is started
executeFunction_done(i, err) ==
  /\ Waiting(i, "body")
  /\ Step(i, [tasks[i] EXCEPT !.done = err,
                              !.pc = IF err # NoErr THEN "rollback" ELSE "commit"])
  /\ UNCHANGED <<self, dataSources, pools, calls, facadeVars>>

\* the body throws before it has called done: executeFunction is called outside
\* any try block, so the exception leaves the getConnection callback
executeFunction_throws(i) ==
  /\ Waiting(i, "body")
  /\ Step(i, [tasks[i] EXCEPT !.done = "never", !.pc = "uncaught",
                              !.log = Append(tasks[i].log, Ev("throw", TRUE))])
  /\ UNCHANGED <<self, dataSources, pools, calls, facadeVars>>

\* the callback of connection.rollback: its error is logged, then close is started
runTransaction_onRollback(i, ok) ==
  /\ Waiting(i, "rollback")
  /\ Step(i, [tasks[i] EXCEPT !.pc = "close",
                              !.log = Append(tasks[i].log, Ev("rollback", ok))])
  /\ UNCHANGED <<self, dataSources, pools, calls, facadeVars>>

\* the callback of connection.commit: its error is logged, then close is started
runTransaction_onCommit(i, ok) ==
  /\ Waiting(i, "commit")
  /\ Step(i, [tasks[i] EXCEPT !.pc = "close",
                              !.log = Append(tasks[i].log, Ev("commit", ok))])
  /\ UNCHANGED <<self, dataSources, pools, calls, facadeVars>>

\* the callback of connection.close: its error is logged, then callback(err) on
\* the rollback branch, callback() on the commit branch
runTransaction_onClose(i, ok) ==
  /\ Waiting(i, "close")
  /\ LET t == tasks[i]
     IN Step(i, Finished([t EXCEPT !.held = ~ok,
                                   !.log = t.log \o <<Ev("release", ok), Ev("callback", TRUE)>>],
                         IF t.done # NoErr THEN t.done ELSE NoErr))
  /\ UNCHANGED <<self, dataSources, pools, calls, facadeVars>>

NextLegacy ==
  \/ \E c \in LegacyConfigs : JDBCConn_initialize(c)
  \/ \E i \in 1..Len(tasks), err \in BOOLEAN, throws \in 0..2 :
       initialize_onDataSource(i, err, throws)
  \/ \E i \in 1..Len(tasks), err, fillThrows \in BOOLEAN : initialize_onPool(i, err, fillThrows)
  \/ \E closeThrows \in BOOLEAN : JDBCConn_close(closeThrows)
  \/ \E c \in LegacyConfigs, closeThrows \in BOOLEAN : JDBCConn_reInitialize(c, closeThrows)
  \/ JDBCConn_runTransaction
  \/ \E i \in 1..Len(tasks), err, acThrows \in BOOLEAN :
       runTransaction_onConnection(i, err, acThrows)
  \/ \E i \in 1..Len(tasks), err \in {NoErr, BodyError} : executeFunction_done(i, err)
  \/ \E i \in 1..Len(tasks) : executeFunction_throws(i)
  \/ \E i \in 1..Len(tasks), ok \in BOOLEAN : runTransaction_onRollback(i, ok)
  \/ \E i \in 1..Len(tasks), ok \in BOOLEAN : runTransaction_onCommit(i, ok)
  \/ \E i \in 1..Len(tasks), ok \in BOOLEAN : runTransaction_onClose(i, ok)

SpecLegacy == Init /\ [][NextLegacy]_vars

\* =========================================================================
\* The result-row marshallers and the trimming functions, applied to cursors
\* and column values drawn from bounded sets.
\* =========================================================================
MaxColumns == 2     \* columns of a cursor
MaxCursorRows == 2  \* rows of a marshalled cursor

\* column labels, 'index' among them
ColumnNames == {"A", "B", "index"}
ColumnLists == UNION { [1..n -> ColumnNames] : n \in 0..MaxColumns }

\* column values: null, blanks only, padded text
CellValues == {Null, Str(<<" ">>), Str(<<" ", "A", " ">>)}

\* the rows of a cursor of n rows with the columns cols
CursorRows(cols, n) == [1..n -> [1..Len(cols) -> CellValues]]

\* A call of one of the functions: what it was given and what it gave back.
Applied(op, arg, out) == [op |-> op, arg |-> arg, out |-> out]

\* The functions keep no state, so a behaviour makes one call.
NoneApplied == last.op = "none"

\* applied to every string of Strings, or null
call_trimValue ==
  /\ NoneApplied
  /\ \E str \in {Str(s) : s \in Strings} \cup {Null} :
       last' = Applied("trimValue", str, trimValue(str))
  /\ UNCHANGED <<preventQueries, jdbc, dataSources, pools, conns, frame, calls, self, tasks>>

call_trim1 ==
  /\ NoneApplied
  /\ \E str \in {Str(s) : s \in Strings} \cup {Null} :
       last' = Applied("trim1", str, trim1(str))
  /\ UNCHANGED <<preventQueries, jdbc, dataSources, pools, conns, frame, calls, self, tasks>>

\* every cursor of up to MaxColumns columns and MaxCursorRows rows, or null
call_getResults ==
  /\ NoneApplied
  /\ \/ last' = Applied("getResults", NullCursor, getResults(NullCursor))
     \/ \E cols \in ColumnLists, n \in 0..MaxCursorRows :
          \E rows \in CursorRows(cols, n) :
            last' = Applied("getResults", Cursor(cols, rows), getResults(Cursor(cols, rows)))
  /\ UNCHANGED <<preventQueries, jdbc, dataSources, pools, conns, frame, calls, self, tasks>>

call_getResultsFromResultSet ==
  /\ NoneApplied
  /\ \/ last' = Applied("getResultsFromResultSet", NullCursor, getResultsFromResultSet(NullCursor))
     \/ \E cols \in ColumnLists, n \in 0..MaxCursorRows :
          \E rows \in CursorRows(cols, n) :
            last' = Applied("getResultsFromResultSet", Cursor(cols, rows), getResultsFromResultSet(Cursor(cols, rows)))
  /\ UNCHANGED <<preventQueries, jdbc, dataSources, pools, conns, frame, calls, self, tasks>>

\* ------------------------------------------------ insert statement builders
MaxKeys == 2        \* enumerable properties of a parameters object

PropertyNames == {"A", "B", "C"}
PropertyValues == {"1", "2"}

\* A parameters object: its enumerable properties in the order for...in visits
\* them, own properties first, then those inherited from the prototype chain;
\* a name occurs once.
Objects ==
  {obj \in UNION { [1..n -> [key : PropertyNames, value : PropertyValues, own : BOOLEAN]] :
                     n \in 0..MaxKeys } :
     \A i, j \in 1..Len(obj) :
       i < j => /\ obj[i].key # obj[j].key
                /\ (obj[j].own => obj[i].own)}

\* Object.keys(obj): the own enumerable properties
Object_keys(obj) == SelectSeq(obj, LAMBDA e : e.own)

\* the for (key in parameters) loop of buildInsertStatement from property i on:
\* the name and a '?' are appended, then ', ' unless index has reached
\* Object.keys(parameters).length
RECURSIVE buildInsertStatement_loop(_, _, _, _)
buildInsertStatement_loop(parameters, i, columnNamesString, valuePlaceHolders) ==
  IF i > Len(parameters)
    THEN [columnNamesString |-> columnNamesString, valuePlaceHolders |-> valuePlaceHolders]
    ELSE LET comma == IF i # Len(Object_keys(parameters)) THEN <<", ">> ELSE <<>>
         IN buildInsertStatement_loop(parameters, i + 1,
                                      columnNamesString \o <<parameters[i].key>> \o comma,
                                      valuePlaceHolders \o <<"?">> \o comma)

\* buildInsertStatement: 'INSERT INTO ' + tableName, and when Object.keys finds
\* a property ' (' + columnNamesString + ') VALUES (' + valuePlaceHolders + ')'.
\* The two lists are kept as the pieces they were concatenated from.
buildInsertStatement(tableName, parameters) ==
  IF Len(Object_keys(parameters)) > 0
    THEN LET built == buildInsertStatement_loop(parameters, 1, <<>>, <<>>)
         IN [table |-> tableName, lists |-> TRUE,
             columnNamesString |-> built.columnNamesString,
             valuePlaceHolders |-> built.valuePlaceHolders]
    ELSE [table |-> tableName, lists |-> FALSE,
          columnNamesString |-> <<>>, valuePlaceHolders |-> <<>>]

\* objectToValueArray of the utilities module: for...in with the hasOwnProperty test
objectToValueArray(obj) ==
  LET own == Object_keys(obj) IN [i \in 1..Len(own) |-> own[i].value]

\* JDBCConn.prototype.objectToValueArray: for...in without a test
JDBCConn_objectToValueArray(obj) == [i \in 1..Len(obj) |-> obj[i].value]

call_buildInsertStatement ==
  /\ NoneApplied
  /\ \E obj \in Objects :
       last' = Applied("buildInsertStatement", obj, buildInsertStatement("T", obj))
  /\ UNCHANGED <<preventQueries, jdbc, dataSources, pools, conns, frame, calls, self, tasks>>

call_objectToValueArray ==
  /\ NoneApplied
  /\ \E obj \in Objects :
       last' = Applied("objectToValueArray", obj, objectToValueArray(obj))
  /\ UNCHANGED <<preventQueries, jdbc, dataSources, pools, conns, frame, calls, self, tasks>>

call_JDBCConn_objectToValueArray ==
  /\ NoneApplied
  /\ \E obj \in Objects :
       last' = Applied("JDBCConn.objectToValueArray", obj, JDBCConn_objectToValueArray(obj))
  /\ UNCHANGED <<preventQueries, jdbc, dataSources, pools, conns, frame, calls, self, tasks>>

NextMarshal ==
  \/ call_trimValue
  \/ call_trim1
  \/ call_getResults
  \/ call_getResultsFromResultSet
  \/ call_buildInsertStatement
  \/ call_objectToValueArray
  \/ call_JDBCConn_objectToValueArray

SpecMarshal == Init /\ [][NextMarshal]_vars

\* =========================================================================
\* Specification SpecTest models testConnection of src/lib/jdbcUtilities.js: every
\* call makes a JDBCConn instance of its own (testJdbc), initializes it, runs the
\* validation query with JDBCConn.prototype.execute and closes the instance.
\* Each driver callback is a step; a step runs the handler and everything it
\* calls up to the next asynchronous driver call.
\* =========================================================================
\* a call of testConnection: testJdbc is its instance, source and pool the driver
\* objects made for it, held: the connection of execute is on loan, cb: the
\* values its callback was invoked with
TestTask(config) ==
  [op |-> "testConnection", pc |-> "newDataSource", config |-> config,
   testJdbc |-> [JDBCConn_constructor EXCEPT !.config = [is |-> "set", value |-> config]],
   source |-> 0, pool |-> 0, held |-> FALSE, log |-> <<>>, cb |-> <<>>]

\* testJdbc.close(function (err) {...; return callback(status); }): the pool the
\* instance refers to is closed (closeThrows: closeSync throws), the references
\* are cleared either way, then testConnection's callback gets status
Conclude(t, status, closeThrows) ==
  [t EXCEPT !.pc = "finished",
            !.testJdbc = kill(t.testJdbc),
            !.log = t.log
                      \o (IF t.testJdbc.connectionPool # 0
                            THEN <<Ev("closePool", ~closeThrows)>> ELSE <<>>)
                      \o <<Ev("callback", TRUE)>>,
            !.cb = Append(t.cb, status)]

\* the pools after the close of Conclude
ClosedPools(t, closeThrows) ==
  IF t.testJdbc.connectionPool # 0 /\ ~closeThrows
    THEN [pools EXCEPT ![t.testJdbc.connectionPool].closed = TRUE]
    ELSE pools

\* initialize fails: self.kill(), callback(err); testConnection's handler logs
\* and closes the instance, which refers to no pool any more, then callback(false)
InitializeFailed(t) ==
  Conclude([t EXCEPT !.testJdbc = kill(t.testJdbc),
                     !.log = Append(t.log, Ev("initialize", FALSE))], FALSE, FALSE)

\* execute hands its callback an error: status stays false, the instance is closed
ExecuteFailed(t, closeThrows) ==
  Conclude([t EXCEPT !.log = Append(t.log, Ev("execute", FALSE))], FALSE, closeThrows)

\* execute hands its callback the results, an array: status is true
ExecuteSucceeded(t, closeThrows) ==
  Conclude([t EXCEPT !.log = Append(t.log, Ev("execute", TRUE))], TRUE, closeThrows)

\* connection.closeSync() in a try block whose catch logs
Release(t, releaseThrows) ==
  [t EXCEPT !.held = releaseThrows, !.log = Append(t.log, Ev("release", ~releaseThrows))]

\* exports.testConnection up to java.newInstance; throws: initialize throws at its
\* caller (config is not an object), the catch block closes the instance and
\* calls back false
testConnection(config, throws) ==
  /\ IF throws
       THEN Start(Conclude([TestTask(config) EXCEPT !.testJdbc = JDBCConn_constructor],
                           FALSE, FALSE))
       ELSE Start(TestTask(config))
  /\ UNCHANGED <<self, dataSources, pools, facadeVars>>

\* the callback of java.newInstance(connectionPoolDataSourceName, ...); throws:
\* 0 none, 1 setLibrariesSync, 2 setSecureSync
testConnection_onDataSource(i, err, throws) ==
  /\ Waiting(i, "newDataSource")
  /\ LET t == tasks[i]
         n == Len(dataSources) + 1
         ds == [host |-> t.config.serverName, user |-> t.config.user,
                password |-> t.config.password,
                libraries |-> IF throws = 1 THEN "" ELSE t.config.libraries,
                secure |-> IF throws = 0 THEN t.config.secure ELSE FALSE]
     IN IF err
          THEN /\ Step(i, InitializeFailed(t))
               /\ UNCHANGED dataSources
          ELSE /\ dataSources' = Append(dataSources, ds)
               /\ IF throws # 0
                    THEN Step(i, InitializeFailed([t EXCEPT !.source = n]))
                    ELSE Step(i, [t EXCEPT !.pc = "newPool", !.source = n,
                                           !.testJdbc.connectionPoolDataSource = n])
  /\ UNCHANGED <<self, pools, calls, facadeVars>>

\* the callback of java.newInstance(connectionPoolName, ...): the pool is filled;
\* on success initialize calls back, and testConnection's handler calls
\* testJdbc.execute, which asks the pool for a connection
testConnection_onPool(i, err, fillThrows) ==
  /\ Waiting(i, "newPool")
  /\ LET t == tasks[i]
         n == Len(pools) + 1
         pl == [source |-> t.source,
                fill |-> IF fillThrows THEN <<>> ELSE t.config.initialPoolCount,
                filled |-> ~fillThrows, closed |-> FALSE]
     IN IF err
          THEN /\ Step(i, InitializeFailed(t))
               /\ UNCHANGED pools
          ELSE /\ pools' = Append(pools, pl)
               /\ IF fillThrows
                    THEN Step(i, InitializeFailed([t EXCEPT !.pool = n]))
                    ELSE Step(i, [t EXCEPT !.pc = "getConnection", !.pool = n,
                                           !.testJdbc.connectionPool = n,
                                           !.log = Append(t.log, Ev("initialize", TRUE))])
  /\ UNCHANGED <<self, dataSources, calls, facadeVars>>

\* execute: the callback of getConnection; setAutoCommitSync(true) stands outside
\* any try block (acThrows: it throws out of the driver callback)
execute_onConnection(i, err, acThrows, closeThrows) ==
  /\ Waiting(i, "getConnection")
  /\ LET t == tasks[i]
     IN IF err
          THEN /\ Step(i, ExecuteFailed(t, closeThrows))
               /\ pools' = ClosedPools(t, closeThrows)
          ELSE /\ Step(i, [t EXCEPT !.pc = IF acThrows THEN "uncaught" ELSE "createStatement",
                                    !.held = TRUE,
                                    !.log = Append(t.log, Ev("setAutoCommit", ~acThrows))])
               /\ UNCHANGED pools
  /\ UNCHANGED <<self, dataSources, calls, facadeVars>>

\* execute: the callback of createStatement; on err the connection is released
\* and the error handed over
execute_onStatement(i, err, releaseThrows, closeThrows) ==
  /\ Waiting(i, "createStatement")
  /\ LET t == tasks[i]
     IN IF err
          THEN /\ Step(i, ExecuteFailed(Release(t, releaseThrows), closeThrows))
               /\ pools' = ClosedPools(t, closeThrows)
          ELSE /\ Step(i, [t EXCEPT !.pc = "executeQuery"])
               /\ UNCHANGED pools
  /\ UNCHANGED <<self, dataSources, calls, facadeVars>>

\* execute: the callback of executeQuery; on err the error is handed over with
\* the connection still on loan; without a result set getResultsFromResultSet
\* answers [] at once
execute_onQuery(i, err, noResultSet, releaseThrows, closeThrows) ==
  /\ Waiting(i, "executeQuery")
  /\ LET t == tasks[i]
     IN IF err
          THEN /\ Step(i, ExecuteFailed(t, closeThrows))
               /\ pools' = ClosedPools(t, closeThrows)
          ELSE IF noResultSet
          THEN /\ Step(i, ExecuteSucceeded(Release(t, releaseThrows), closeThrows))
               /\ pools' = ClosedPools(t, closeThrows)
          ELSE /\ Step(i, [t EXCEPT !.pc = "getMetaData"])
               /\ UNCHANGED pools
  /\ UNCHANGED <<self, dataSources, calls, facadeVars>>

\* getResultsFromResultSet: the callback of rs.getMetaData; the rows are read in a
\* try block (readThrows); execute releases the connection and hands over the
\* error or the rows
execute_onMetaData(i, err, readThrows, releaseThrows, closeThrows) ==
  /\ Waiting(i, "getMetaData")
  /\ LET read == [tasks[i] EXCEPT !.log = tasks[i].log
                                    \o <<Ev("getMetaData", ~err)>>
                                    \o (IF err THEN <<>> ELSE <<Ev("read", ~readThrows)>>)]
         t == Release(read, releaseThrows)
     IN /\ Step(i, IF err \/ readThrows THEN ExecuteFailed(t, closeThrows)
                   ELSE ExecuteSucceeded(t, closeThrows))
        /\ pools' = ClosedPools(t, closeThrows)
  /\ UNCHANGED <<self, dataSources, calls, facadeVars>>

NextTest ==
  \/ \E c \in LegacyConfigs, throws \in BOOLEAN : testConnection(c, throws)
  \/ \E i \in 1..Len(tasks), err \in BOOLEAN, throws \in 0..2 :
       testConnection_onDataSource(i, err, throws)
  \/ \E i \in 1..Len(tasks), err, fillThrows \in BOOLEAN :
       testConnection_onPool(i, err, fillThrows)
  \/ \E i \in 1..Len(tasks), err, acThrows, closeThrows \in BOOLEAN :
       execute_onConnection(i, err, acThrows, closeThrows)
  \/ \E i \in 1..Len(tasks), err, releaseThrows, closeThrows \in BOOLEAN :
       execute_onStatement(i, err, releaseThrows, closeThrows)
  \/ \E i \in 1..Len(tasks), err, noResultSet, releaseThrows, closeThrows \in BOOLEAN :
       execute_onQuery(i, err, noResultSet, releaseThrows, closeThrows)
  \/ \E i \in 1..Len(tasks), err, readThrows, releaseThrows, closeThrows \in BOOLEAN :
       execute_onMetaData(i, err, readThrows, releaseThrows, closeThrows)

SpecTest == Init /\ [][NextTest]_vars


\* ================================================================== claims
Attempted(c, e) == \E i \in 1..Len(conns[c].log) : conns[c].log[i].ev = e

Failed(c, e) == \E i \in 1..Len(conns[c].log) : conns[c].log[i].ev = e /\ ~conns[c].log[i].ok

GatedOps ==
  {"executeSqlString", "executePreparedStatement", "executeUpdatePreparedStatement",
   "executeUpdateStatementInTransaction", "executeStoredProcedure", "runTransaction"}

StatementOps ==
  {"executeSqlString", "executePreparedStatement", "executeUpdatePreparedStatement",
   "executeStoredProcedure"}

\* C1: a call of executeSqlString, executePreparedStatement,
\* executeUpdatePreparedStatement, executeUpdateStatementInTransaction,
\* executeStoredProcedure or runTransaction made while preventQueries is true
\* invokes its callback once with the maintenance-mode error and leaves the
\* driver instance, the data sources, the pools and every connection (so the
\* number on loan) as they were.
C1_GateShortCircuits ==
  [][(preventQueries /\ calls' = calls + 1 /\ last'.op \in GatedOps)
       => /\ last'.cb = <<Cb(MaintenanceError, NoRes)>>
          /\ last'.threw = NoErr
          /\ last'.returned
          /\ UNCHANGED <<preventQueries, jdbc, dataSources, pools, conns, frame>>]_vars

\* A gated call was turned away although the pool was ready and a connection
\* would have been there to borrow.
C1_Witness ==
  /\ last.op \in GatedOps
  /\ last.before.gate
  /\ last.before.ready
  /\ last.cb = <<Cb(MaintenanceError, NoRes)>>

\* C2: after executeQuery, executeUpdate or executeStoredProcedure on a ready
\* pool, whichever step failed (the release itself apart), as many connections
\* are on loan as before the call.
C2_NoLeak ==
  (/\ last.op \in StatementOps
   /\ last.before.ready
   /\ ~last.before.gate
   /\ last.conn # 0 => ~Failed(last.conn, "release"))
    => LoanOf(jdbc) = last.before.loan

\* C3: every public call that has returned invoked its callback exactly once.
C3_CallbackExactlyOnce ==
  (last.op # "none" /\ last.returned) => Len(last.cb) = 1

\* A transaction whose body has signalled done and whose callback has fired.
Signalled(c) == conns[c].done \in {NoErr, BodyError} /\ conns[c].cb # <<>>

\* C4: done(someError) has a rollback attempted, no commit, and the callback gets
\* exactly someError; done() has a commit attempted, no rollback, and the
\* callback gets no error (when the commit went through).
C4_DoneDecidesOutcome ==
  \A c \in DOMAIN conns :
    Signalled(c) =>
      IF conns[c].done = BodyError
        THEN /\ Attempted(c, "rollback")
             /\ ~Attempted(c, "commit")
             /\ conns[c].cb = <<BodyError>>
        ELSE /\ Attempted(c, "commit")
             /\ ~Attempted(c, "rollback")
             /\ (~Failed(c, "commit") => conns[c].cb = <<NoErr>>)

TaskFailed(i, e) ==
  \E k \in 1..Len(tasks[i].log) : tasks[i].log[k].ev = e /\ ~tasks[i].log[k].ok

\* C5: when the body signals done() without an error and the commit fails, the
\* callback of runTransaction gets the commit failure.
C5_CommitFailureDelivered ==
  \A i \in 1..Len(tasks) :
    (/\ tasks[i].op = "runTransaction"
     /\ tasks[i].done = NoErr
     /\ TaskFailed(i, "commit")
     /\ tasks[i].cb # <<>>)
      => tasks[i].cb = <<ErrorOf("commit")>>

\* C6: when the body signals done(err) and the rollback fails, the callback
\* still gets err.
C6_RollbackFailureKeepsBodyError ==
  \A c \in DOMAIN conns :
    (Signalled(c) /\ conns[c].done = BodyError /\ Failed(c, "rollback"))
      => conns[c].cb = <<BodyError>>

Uses == {"prepareStatement", "setObject", "executeUpdate", "closeStatement",
         "commit", "rollback"}

\* C7: on a transaction's connection the release comes after the commit or
\* rollback and after every statement, and the callback after the release.
C7_ReleaseAfterResolution ==
  \A c \in DOMAIN conns :
    conns[c].body # "none" =>
      \A i, j \in 1..Len(conns[c].log) :
        /\ (conns[c].log[i].ev = "release" /\ conns[c].log[j].ev \in Uses) => j < i
        /\ (conns[c].log[i].ev = "callback" /\ conns[c].log[j].ev \in Uses \cup {"release"})
             => j < i

\* C8: a body that throws before calling done has a rollback attempted, the
\* connection released and the thrown error delivered.
C8_ThrowRollsBack ==
  \A c \in DOMAIN conns :
    (conns[c].body = "throw" /\ conns[c].cb # <<>>)
      => /\ Attempted(c, "rollback")
         /\ Attempted(c, "release")
         /\ conns[c].cb = <<ThrownError>>

Releases(i) ==
  Cardinality({k \in 1..Len(tasks[i].log) : tasks[i].log[k].ev = "release"})

\* C9: a runTransaction whose body was entered and which has come to its end
\* (commit or rollback, succeeded or failed, or the body threw) has released its
\* connection exactly once, and the connection is no longer on loan unless the
\* release itself failed.
C9_ReleasedExactlyOnce ==
  \A i \in 1..Len(tasks) :
    (/\ tasks[i].op = "runTransaction"
     /\ tasks[i].done # "n/a"
     /\ tasks[i].pc \in {"finished", "uncaught"})
      => /\ Releases(i) = 1
         /\ (~TaskFailed(i, "release") => ~tasks[i].held)

\* C10: initialize called while a ready pool exists returns success and creates
\* no data source and no pool: the pool referred to is the one from before.
C10_InitializeIdempotent ==
  (last.op = "initialize" /\ last.before.ready)
    => /\ last.cb = <<Cb(NoErr, NoRes)>>
       /\ Len(pools) = last.before.npools
       /\ Len(dataSources) = last.before.nsources
       /\ jdbc.pool = last.before.pool

\* C11: when initialize has failed and its callback has fired, the driver object
\* holds no configuration, no data source and no pool, it is not ready, and the
\* callback got the error of the step that failed.
C11_FailedInitializeTornDown ==
  (last.op = "initialize" /\ last.cb[1].err # NoErr)
    => /\ jdbc.poolDataSource = 0
       /\ jdbc.pool = 0
       /\ jdbc.host = NoJdbc.host
       /\ ~Ready(jdbc)
       /\ \E f \in 1..Len(ConnectSteps) : last.cb[1].err = ErrorOf(ConnectSteps[f])

\* C13: closeAll on a ready pool closes that pool and leaves the module without a
\* ready pool.
C13_CloseClosesPool ==
  (last.op = "closeAll" /\ last.before.ready /\ last.threw = NoErr)
    => /\ pools[last.before.pool].closed
       /\ ~Ready(jdbc)

\* C14: closeAll called when there is no ready pool (never initialized, or already
\* closed) returns to its caller, calls back once without an error, and leaves
\* the module without a ready pool.
C14_CloseWhenUninitialized ==
  (last.op = "closeAll" /\ ~last.before.ready)
    => /\ last.threw = NoErr
       /\ last.cb = <<Cb(NoErr, NoRes)>>
       /\ ~Ready(jdbc)

QueryOps == StatementOps \cup {"runTransaction"}

\* C15: a query, update, stored procedure or transaction that reaches the driver
\* object while it is not ready calls back once with the not-initialized error
\* and borrows no connection.
C15_NotReadyRejected ==
  (last.op \in QueryOps /\ ~last.before.gate /\ jdbc.exists /\ ~last.before.ready)
    => /\ last.threw = NoErr
       /\ Len(last.cb) = 1
       /\ last.cb[1].err = NotInitialized
       /\ last.conn = 0

\* C16: executeSqlString called when initialize has never been called has the
\* driver object built and connected on its behalf before the query runs, and
\* returns to its caller with the callback invoked.
C16_QueryInitializesFirst ==
  (last.op = "executeSqlString" /\ ~last.before.gate /\ last.before.nsources = 0
     /\ last.before.npools = 0 /\ last.before.pool = 0)
    => /\ last.threw = NoErr
       /\ Len(last.cb) = 1
       /\ jdbc.exists
       /\ (last.cb[1].err = NoErr => Ready(jdbc) /\ last.cb[1].res.kind = "rows")

Executed(c) ==
  \E i \in 1..Len(conns[c].log) : conns[c].log[i].ev = "execute" /\ conns[c].log[i].ok

\* the fieldName entries a result object must hold for the output descriptors
OutputsOf(parameters) ==
  {[fieldName |-> parameters[i].fieldName, pos |-> i] :
     i \in {k \in 1..Len(parameters) : parameters[k].type = "out"}}

\* C18: executeStoredProcedure binds position i with the value field of an input
\* descriptor, registers position i with the dataType of an output descriptor,
\* and after execution the result holds, for each output descriptor, its
\* fieldName with the value read back from its position.
C18_BindsInDeclaredOrder ==
  (last.op = "executeStoredProcedure" /\ last.conn # 0)
    => LET call == conns[last.conn].call
           res == last.cb[1].res
       IN /\ \A i \in 1..Len(call.binds) :
               /\ call.binds[i].pos = i
               /\ call.parameters[i].type = "in"
                    => /\ call.binds[i].call = "setObject"
                       /\ call.binds[i].of = "value"
                       /\ call.binds[i].arg = call.parameters[i].value
               /\ call.parameters[i].type = "out"
                    => /\ call.binds[i].call = "registerOutParameter"
                       /\ call.binds[i].of = "dataType"
                       /\ call.binds[i].arg = call.parameters[i].dataType
          /\ (Executed(last.conn) /\ ~Failed(last.conn, "getObject"))
               => /\ res.kind = "proc"
                  /\ {res.outputs[k] : k \in 1..Len(res.outputs)}
                       = OutputsOf(call.parameters)

\* C19: a stored procedure that produced k >= 1 result sets and whose call came
\* back without an error returns a result whose resultSets has length k.
C19_ResultSetsLength ==
  (/\ last.op = "executeStoredProcedure"
   /\ last.conn # 0
   /\ conns[last.conn].call.produced >= 1
   /\ last.cb[1].err = NoErr)
    => /\ last.cb[1].res.hasSets
       /\ Len(last.cb[1].res.sets) = conns[last.conn].call.produced

\* C20: executeStoredProcedure whose parameter loop comes to a descriptor that is
\* neither 'in' nor 'out' calls back with the invalid-parameter-type error, makes
\* no bind call for that position, does not execute the call, and has closed the
\* statement and released the connection (unless a close itself throws).
C20_InvalidTypeRejected ==
  (last.op = "executeStoredProcedure" /\ last.conn # 0)
    => LET c == last.conn
           call == conns[c].call
       IN \A i \in 1..Len(call.parameters) :
            (/\ call.parameters[i].type \notin {"in", "out"}
             /\ \A k \in 1..(i - 1) : call.parameters[k].type \in {"in", "out"}
             /\ Len(conns[c].log) >= i + 1
             /\ \A k \in 1..(i + 1) : conns[c].log[k].ok)
              => /\ last.cb[1].err = InvalidParameterType
                 /\ Len(call.binds) < i
                 /\ ~Attempted(c, "execute")
                 /\ Attempted(c, "closeStatement")
                 /\ (~Failed(c, "closeStatement") /\ ~Failed(c, "release")
                       => conns[c].released)

\* A reInitialize made after a successful initialize, with no other call
\* waiting when it was made and none made since, whose callback got no error.
ReInitialized(i) ==
  /\ tasks[i].op = "reInitialize"
  /\ tasks[i].pc = "finished"
  /\ tasks[i].cb = <<NoErr>>
  /\ tasks[i].quiet
  /\ tasks[i].pool # 0
  /\ Len(tasks) = i

\* The driver refers to a ready pool built from config and filled to its
\* initialPoolCount.
BuiltFrom(config) ==
  /\ isInitialized(self)
  /\ LET pl == pools[self.connectionPool]
         ds == dataSources[pl.source]
     IN /\ pl.filled /\ ~pl.closed
        /\ pl.fill = config.initialPoolCount
        /\ pl.source = self.connectionPoolDataSource
        /\ ds.host = config.serverName /\ ds.user = config.user
        /\ ds.password = config.password /\ ds.libraries = config.libraries
        /\ ds.secure = config.secure

\* C12: after reInitialize(cfg2) made after a successful initialize(cfg1), the
\* driver refers to a ready pool built from cfg2 and filled to cfg2's
\* initialPoolCount; the pool built from cfg1 is no longer referred to, and it
\* has been closed unless the driver's close call threw (the exception is logged
\* and reInitialize goes on).
C12_ReInitializeRebuilds ==
  \A i \in 1..Len(tasks) :
    ReInitialized(i)
      => /\ BuiltFrom(tasks[i].config)
         /\ self.connectionPool # tasks[i].pool
         /\ (~TaskFailed(i, "closePool") => pools[tasks[i].pool].closed)

\* A reInitialize with a configuration other than the one the old pool was built
\* from has completed, and the old pool was closed.
C12_Witness ==
  \E i \in 1..Len(tasks) :
    /\ ReInitialized(i)
    /\ pools[tasks[i].pool].closed
    /\ pools[tasks[i].pool].fill # tasks[i].config.initialPoolCount

\* C17: no call ends with an exception leaving an asynchronous driver callback:
\* every error reaches the callback of the call.
C17_NothingThrown ==
  \A i \in 1..Len(tasks) : tasks[i].pc # "uncaught"

\* -------------------------------------------------------------------------
\* The marshalled cursor of the last call of a marshaller.
Marshalled ==
  last.op \in {"getResults", "getResultsFromResultSet"} /\ ~last.arg.null

\* Column i of the cursor is the last one of its name.
LastOfName(columns, i) == \A k \in (i + 1)..Len(columns) : columns[k] # columns[i]

\* C21: for a cursor with n rows the marshaller returns exactly n records in
\* source order; the record at position j (0-based) has index = j and one
\* entry per column keyed by column name, and of columns sharing a name the
\* later column's value is the one kept.
C21_MarshalledRows ==
  Marshalled =>
    LET rs == last.arg
        out == last.out.results
    IN /\ Len(out) = Len(rs.rows)
       /\ \A j \in 1..Len(out) :
            /\ out[j]["index"] = j - 1
            /\ DOMAIN out[j] = {rs.columns[i] : i \in 1..Len(rs.columns)} \cup {"index"}
            /\ \A i \in 1..Len(rs.columns) :
                 (rs.columns[i] # "index" /\ LastOfName(rs.columns, i))
                   => out[j][rs.columns[i]] = trimValue(rs.rows[j][i])

\* two rows, two columns of one name holding different values
C21_Witness ==
  /\ Marshalled
  /\ Len(last.arg.rows) = 2
  /\ last.arg.columns = <<"A", "A">>
  /\ trimValue(last.arg.rows[2][1]) # trimValue(last.arg.rows[2][2])
  /\ last.arg.rows[1] # last.arg.rows[2]

\* -------------------------------------------------------------------------
\* The characters of s between its first and its last non-whitespace character
\* (none when s is whitespace only).
Stripped(s) ==
  LET solid == {i \in 1..Len(s) : s[i] \notin Whitespace}
  IN IF solid = {} THEN <<>>
     ELSE SubSeq(s, CHOOSE a \in solid : \A i \in solid : a <= i,
                    CHOOSE b \in solid : \A i \in solid : i <= b)

\* C22: the value a trimming function returns for a string is that string
\* with all leading and trailing whitespace removed and the inner characters
\* unchanged, trimming that value again returns it unchanged, and every column
\* value a marshaller places in a record is the column's string trimmed so.
C22_ValuesTrimmed ==
  /\ (last.op \in {"trimValue", "trim1"} /\ last.arg.is = "string") =>
       /\ last.out = Str(Stripped(last.arg.chars))
       /\ trimValue(last.out) = last.out
       /\ trim1(last.out) = last.out
  /\ Marshalled =>
       \A j \in 1..Len(last.arg.rows), i \in 1..Len(last.arg.columns) :
         (/\ last.arg.columns[i] # "index"
          /\ LastOfName(last.arg.columns, i)
          /\ last.arg.rows[j][i].is = "string")
           => last.out.results[j][last.arg.columns[i]]
                = Str(Stripped(last.arg.rows[j][i].chars))

\* -------------------------------------------------------------------------
\* C23: a query whose driver calls all succeed but whose executeQuerySync
\* returns no cursor (null) completes successfully: its callback gets no error
\* and the empty row sequence.
C23_NoCursorIsEmpty ==
  [][\A sf, cf \in BOOLEAN, p \in ParamLists :
       (/\ Ready(jdbc)
        /\ ~preventQueries
        /\ \/ executeSqlString(0, sf, cf, NullCursor)
           \/ executePreparedStatement(p, 0, sf, cf, NullCursor))
         => /\ Len(last'.cb) = 1
            /\ last'.cb[1].err = NoErr
            /\ last'.cb[1].res = Rows(<<>>)]_vars

\* -------------------------------------------------------------------------
\* The steps of the try block of connection c's operation that threw.
TryFailures(c) ==
  {i \in 1..Len(conns[c].log) :
     conns[c].log[i].ev \notin {"closeStatement", "release"} /\ ~conns[c].log[i].ok}

\* what a statement operation hands to its callback beside the error
ResultKind(op) ==
  IF op = "executeStoredProcedure" THEN "proc"
  ELSE IF op = "executeUpdatePreparedStatement" THEN "none"
  ELSE "rows"

\* C24: in executeQuery, executeUpdate and executeStoredProcedure a failure
\* of the statement close or of the connection release never changes what the
\* caller receives: the callback is invoked once; if a step of the operation
\* had failed it gets that step's error, and if none had it gets no error and
\* the operation's result.
C24_CloseFailureSuppressed ==
  (/\ last.op \in StatementOps
   /\ last.conn \in DOMAIN conns
   /\ Failed(last.conn, "closeStatement") \/ Failed(last.conn, "release"))
    => /\ Len(last.cb) = 1
       /\ \A i \in TryFailures(last.conn) :
            last.cb[1].err \in {ErrorOf(conns[last.conn].log[i].ev), TypeError, ReferenceError}
       /\ TryFailures(last.conn) = {} =>
            /\ last.cb[1].err = NoErr
            /\ last.cb[1].res.kind = ResultKind(last.op)

\* a query that delivered its rows although its statement close threw
C24_Witness ==
  /\ last.op \in StatementOps
  /\ last.conn \in DOMAIN conns
  /\ Len(last.cb) = 1
  /\ Failed(last.conn, "closeStatement")
  /\ last.cb[1].err = NoErr
  /\ Len(last.cb[1].res.rows) = MaxRows

\* -------------------------------------------------------------------------
\* The options initialize was given for pool p (its data source carries their
\* host).
OptionsOf(p) == CHOOSE o \in Configs : o.host = dataSources[pools[p].source].host

\* C25: a pool that initialize has filled was filled with 1 connection when
\* the options carry no initialPoolCount, and with n connections when they
\* carry initialPoolCount = n.
C25_FillCount ==
  \A p \in 1..Len(pools) :
    pools[p].filled =>
      pools[p].fill = IF OptionsOf(p).initialPoolCount = <<>> THEN <<1>>
                      ELSE OptionsOf(p).initialPoolCount

\* -------------------------------------------------------------------------
\* C26: getPreventQueries() is false until the flag is set; a
\* setPreventQueries(b) step leaves it returning b; and whenever what it
\* returns changes, the step is a setPreventQueries step: initialize, close,
\* the queries and the transaction steps leave the flag as it is.
C26_FlagFrame ==
  /\ getPreventQueries = FALSE
  /\ [][/\ \A b \in BOOLEAN : setPreventQueries(b) => getPreventQueries' = b
        /\ getPreventQueries' # getPreventQueries
             => \E b \in BOOLEAN : setPreventQueries(b)]_vars

\* the flag was set, and a later initialize and a gated query have left it set
C26_Witness ==
  /\ getPreventQueries
  /\ last.op \in GatedOps
  /\ last.before.gate
  /\ last.before.nsources > 0

\* -------------------------------------------------------------------------
\* Position of the first event e in connection c's log (0: none).
FirstOf(c, e) ==
  IF Attempted(c, e)
    THEN CHOOSE i \in 1..Len(conns[c].log) :
           /\ conns[c].log[i].ev = e
           /\ \A k \in 1..(i - 1) : conns[c].log[k].ev # e
    ELSE 0

\* A statement handle was created on connection c.
StatementCreated(c) ==
  \E i \in 1..Len(conns[c].log) :
    conns[c].log[i].ev \in {"prepareStatement", "prepareCall"} /\ conns[c].log[i].ok

\* C27: in executeQuery, executeUpdate and executeStoredProcedure, whenever
\* a statement handle was created its close is attempted, the release of the
\* borrowed connection is attempted after it, and the release is attempted
\* even when closing the statement failed.
C27_StatementClosedThenReleased ==
  (last.op \in StatementOps /\ last.conn \in DOMAIN conns /\ StatementCreated(last.conn))
    => /\ Attempted(last.conn, "closeStatement")
       /\ Attempted(last.conn, "release")
       /\ FirstOf(last.conn, "closeStatement") < FirstOf(last.conn, "release")

\* -------------------------------------------------------------------------
\* The pools that exist and have not been closed.
LivePools == {p \in 1..Len(pools) : ~pools[p].closed}

\* Two initialize calls, the second made while the first was waiting for a
\* driver callback, have both called back without an error.
OverlappingInitializes ==
  /\ Len(tasks) = 2
  /\ \A i \in 1..2 :
       tasks[i].op = "initialize" /\ tasks[i].pc = "finished" /\ tasks[i].cb = <<NoErr>>
  /\ ~tasks[2].quiet

\* C28: two overlapping initialize requests result in exactly one live
\* connection pool, the one the driver refers to: no pool is created and then
\* left unreferenced without being closed.
C28_OneLivePool ==
  OverlappingInitializes =>
    /\ Cardinality(LivePools) = 1
    /\ \A p \in LivePools : p = self.connectionPool

\* -------------------------------------------------------------------------
\* initialize(cfg1), then reInitialize(cfg2) made while the initialize was
\* waiting for a driver callback; both have called back without an error.
RacingReInitialize ==
  /\ Len(tasks) = 2
  /\ tasks[1].op = "initialize" /\ tasks[1].pc = "finished"
  /\ tasks[2].op = "reInitialize" /\ tasks[2].pc = "finished"
  /\ tasks[1].cb = <<NoErr>> /\ tasks[2].cb = <<NoErr>>
  /\ ~tasks[2].quiet
  /\ tasks[1].config # tasks[2].config

\* C29: a reInitialize(cfg2) issued while an initialize(cfg1) is in flight
\* ends with exactly one live pool, the one the driver refers to, whose data
\* source, libraries, secure flag and fill count all come from cfg2.
C29_ReInitializeWins ==
  RacingReInitialize =>
    /\ BuiltFrom(tasks[2].config)
    /\ LivePools = {self.connectionPool}

\* -------------------------------------------------------------------------
\* what initialize hands to its callback
InitializeOutcomes ==
  {NoErr, TypeError, ErrorOf("newDataSource"), ErrorOf("setLibraries"),
   ErrorOf("setSecure"), ErrorOf("newPool"), ErrorOf("fill")}

\* C30: every reInitialize call closes the pool the driver referred to (the
\* close is attempted first, and the pool is closed unless the close threw),
\* then goes on to initialize(newConfig) whether or not the close failed: it
\* never calls back before a data source has been requested, it calls back
\* once, and what it hands over is the outcome of initialize(newConfig), never
\* the close error.
C30_ReInitializeIgnoresCloseError ==
  \A i \in 1..Len(tasks) :
    tasks[i].op = "reInitialize" =>
      /\ tasks[i].pool # 0 =>
           /\ tasks[i].log # <<>> /\ tasks[i].log[1].ev = "closePool"
           /\ tasks[i].log[1].ok => pools[tasks[i].pool].closed
      /\ tasks[i].pc \in {"newDataSource", "newPool", "finished"}
      /\ tasks[i].pc # "finished" => tasks[i].cb = <<>>
      /\ tasks[i].pc = "finished" =>
           /\ Len(tasks[i].cb) = 1
           /\ tasks[i].cb[1] \in InitializeOutcomes
           /\ tasks[i].cb[1] # ErrorOf("closePool")
           /\ tasks[i].cb[1] = NoErr => tasks[i].source # 0

\* a reInitialize whose close of the old pool threw and which went on to build
\* and fill a pool from the new configuration
C30_Witness ==
  \E i \in 1..Len(tasks) :
    /\ tasks[i].op = "reInitialize"
    /\ TaskFailed(i, "closePool")
    /\ tasks[i].pc = "finished"
    /\ tasks[i].cb = <<NoErr>>
    /\ tasks[i].quiet
    /\ BuiltFrom(tasks[i].config)
    /\ self.connectionPool # tasks[i].pool


\* ------------------------------------------------------------------ C31
\* the events e of a log whose name is in evs
CountOf(log, evs) == Cardinality({i \in 1..Len(log) : log[i].ev \in evs})

\* C31: a runTransaction whose body called done before returning, once or more
\* than once, has issued at most one commit-or-rollback, released its
\* connection at most once and invoked its callback at most once, in the order
\* body, commit or rollback, release, callback.
C31_OnePassPerTransaction ==
  \A c \in DOMAIN conns :
    (conns[c].body = "done" /\ conns[c].cb # <<>>) =>
      /\ CountOf(conns[c].log, {"body"}) = 1
      /\ CountOf(conns[c].log, {"commit", "rollback"}) = 1
      /\ CountOf(conns[c].log, {"release"}) = 1
      /\ CountOf(conns[c].log, {"callback"}) = 1
      /\ Len(conns[c].cb) = 1
      /\ \A i, j \in 1..Len(conns[c].log) :
           /\ (conns[c].log[i].ev = "body"
                 /\ conns[c].log[j].ev \in {"commit", "rollback"}) => i < j
           /\ (conns[c].log[i].ev \in {"commit", "rollback"}
                 /\ conns[c].log[j].ev = "release") => i < j
           /\ (conns[c].log[i].ev = "release" /\ conns[c].log[j].ev = "callback") => i < j


\* ------------------------------------------------------------------ C32
\* the events at which a statement is executed
Executions == {"executeQuery", "executeUpdate", "execute"}

StatementEvents == {"prepareStatement", "setObject", "executeUpdate", "closeStatement"}

\* C33: a call of executeUpdateStatementInTransaction leaves the driver, the data
\* sources and the pools as they were, borrows no connection, leaves every
\* connection's released flag and auto-commit setting as they were, and adds to
\* the supplied connection's log only statement events: no release, no
\* setAutoCommit, no commit, no rollback; a statement is closed only after one
\* was prepared by this call.
C33_InTransactionFrame ==
  [][(calls' = calls + 1 /\ last'.op = "executeUpdateStatementInTransaction") =>
       /\ jdbc' = jdbc /\ dataSources' = dataSources /\ pools' = pools
       /\ frame' = frame
       /\ DOMAIN conns' = DOMAIN conns
       /\ \A c \in DOMAIN conns :
            /\ conns'[c].released = conns[c].released
            /\ conns'[c].autoCommit = conns[c].autoCommit
            /\ conns'[c].pool = conns[c].pool
            /\ Len(conns'[c].log) >= Len(conns[c].log)
            /\ SubSeq(conns'[c].log, 1, Len(conns[c].log)) = conns[c].log
            /\ \A i \in (Len(conns[c].log) + 1)..Len(conns'[c].log) :
                 /\ conns'[c].log[i].ev \in StatementEvents
                 /\ conns'[c].log[i].ev = "closeStatement" =>
                      \E k \in (Len(conns[c].log) + 1)..(i - 1) :
                        /\ conns'[c].log[k].ev = "prepareStatement"
                        /\ conns'[c].log[k].ok]_vars

\* a transaction body has run an update on its connection, which is still on loan
\* with auto-commit false and neither committed nor rolled back
C33_Witness ==
  /\ last.op = "executeUpdateStatementInTransaction"
  /\ frame # 0
  /\ last.conn = frame
  /\ ~conns[frame].released
  /\ conns[frame].autoCommit = "false"
  /\ CountOf(conns[frame].log, {"executeUpdate"}) = 1
  /\ CountOf(conns[frame].log, {"closeStatement"}) = 1
  /\ CountOf(conns[frame].log, {"commit", "rollback", "release"}) = 0


\* ------------------------------------------------------------------ C34
\* C34: the result of an executeStoredProcedure that executed and asked the
\* statement for its result set has the resultSets field exactly when the
\* procedure produced at least one result set, and then it is not empty.
C34_ResultSetsIffProduced ==
  (/\ last.op = "executeStoredProcedure"
   /\ last.conn # 0
   /\ Executed(last.conn)
   /\ Attempted(last.conn, "getResultSet")
   /\ ~Failed(last.conn, "getResultSet"))
    => /\ last.cb[1].res.kind = "proc"
       /\ last.cb[1].res.hasSets <=> conns[last.conn].call.produced >= 1
       /\ last.cb[1].res.hasSets => last.cb[1].res.sets # <<>>


\* ------------------------------------------------------------------ C35
\* C35: an executeStoredProcedure that got as far as draining result sets has
\* returned, has invoked its callback once, and has released its connection
\* after the last marshalling step (unless the release itself threw).
C35_DrainEndsReleased ==
  (/\ last.op = "executeStoredProcedure"
   /\ last.conn # 0
   /\ Attempted(last.conn, "getResults"))
    => /\ last.returned
       /\ Len(last.cb) = 1
       /\ Attempted(last.conn, "release")
       /\ conns[last.conn].released \/ Failed(last.conn, "release")
       /\ \A i, j \in 1..Len(conns[last.conn].log) :
            (conns[last.conn].log[i].ev = "getResults"
               /\ conns[last.conn].log[j].ev = "release") => i < j


\* ------------------------------------------------------------------ C36
\* C36: a callback invoked with an error gets no result with it: no rows, and
\* no result object of a stored procedure.
C36_NoResultWithError ==
  \A i \in 1..Len(last.cb) :
    last.cb[i].err # NoErr =>
      /\ last.cb[i].res.kind # "proc"
      /\ last.cb[i].res.rows = <<>>


\* ------------------------------------------------------------------ C37
\* C37: the data source of a pool that initialize has filled carries the host,
\* username and password of the options initialize was given, their library
\* list, and their secure-transport flag.
C37_BuiltFromOptions ==
  \A p \in 1..Len(pools) :
    pools[p].filled =>
      LET o == OptionsOf(p)
          ds == dataSources[pools[p].source]
      IN /\ ds.host = o.host
         /\ ds.user = o.username
         /\ ds.password = o.password
         /\ ds.libraries = o.libraries
         /\ ds.secure = <<o.secure>>


\* ------------------------------------------------------------------ C38
\* C38: a call of close ends with the config, data source and pool references
\* cleared and with one callback invocation: carrying the driver's error when
\* closing the referred pool threw (the pool is still open), and no error when
\* the pool was closed or there was none.
C38_CloseAlwaysKills ==
  [][(Len(tasks') = Len(tasks) + 1 /\ tasks'[Len(tasks')].op = "close") =>
       /\ self'.config.is = "null"
       /\ self'.connectionPoolDataSource = 0
       /\ self'.connectionPool = 0
       /\ ~isInitialized(self')
       /\ tasks'[Len(tasks')].pc = "finished"
       /\ Len(tasks'[Len(tasks')].cb) = 1
       /\ tasks'[Len(tasks')].cb[1] =
            IF self.connectionPool # 0 /\ ~pools'[self.connectionPool].closed
              THEN ErrorOf("closePool") ELSE NoErr]_vars

\* a close whose driver call threw has handed over the error and left the driver
\* uninitialized although it had been initialized and its pool is still open
C38_Witness ==
  /\ Len(tasks) = 2
  /\ tasks[1].op = "initialize" /\ tasks[1].cb = <<NoErr>>
  /\ tasks[2].op = "close" /\ tasks[2].cb = <<ErrorOf("closePool")>>
  /\ ~isInitialized(self)
  /\ \E p \in 1..Len(pools) : pools[p].filled /\ ~pools[p].closed


\* ------------------------------------------------------------------ C39
\* the pieces of a list between its ', ' separators
RECURSIVE ListItems(_)
ListItems(pieces) ==
  IF pieces = <<>> THEN << <<>> >>
  ELSE LET rest == ListItems(Tail(pieces))
       IN IF Head(pieces) = ", " THEN << <<>> >> \o rest
          ELSE << <<Head(pieces)>> \o Head(rest) >> \o Tail(rest)

\* C39: for a parameters object with k >= 1 keys (Object.keys)
\* buildInsertStatement lists the k keys as k column names, in order, and k '?'
\* placeholders, and objectToValueArray (of the utilities module and of
\* JDBCConn) returns the k values, the i-th being the value of the i-th key; for
\* an object without keys the statement has no lists and there are no values.
C39_ColumnsAndValuesAligned ==
  LET keys == Object_keys(last.arg)
  IN /\ last.op = "buildInsertStatement" =>
          IF Len(keys) = 0
            THEN ~last.out.lists
            ELSE /\ last.out.lists
                 /\ ListItems(last.out.columnNamesString)
                      = [i \in 1..Len(keys) |-> <<keys[i].key>>]
                 /\ ListItems(last.out.valuePlaceHolders)
                      = [i \in 1..Len(keys) |-> <<"?">>]
     /\ last.op \in {"objectToValueArray", "JDBCConn.objectToValueArray"} =>
          last.out = [i \in 1..Len(keys) |-> keys[i].value]


\* ------------------------------------------------------------------ C40
\* event e is in the log of call i with outcome ok
Logged(i, e, ok) ==
  \E k \in 1..Len(tasks[i].log) : tasks[i].log[k].ev = e /\ tasks[i].log[k].ok = ok

\* C40: a testConnection call that has come to its end has invoked its callback
\* exactly once, with true exactly when initialize and the validation query both
\* succeeded, and the pool made for it has been closed, before the callback,
\* unless the close itself threw.
C40_TestConnectionClosesPool ==
  \A i \in 1..Len(tasks) :
    (tasks[i].op = "testConnection" /\ tasks[i].pc \in {"finished", "uncaught"}) =>
      /\ Len(tasks[i].cb) = 1
      /\ tasks[i].cb[1] = (Logged(i, "initialize", TRUE) /\ Logged(i, "execute", TRUE))
      /\ tasks[i].pool # 0 =>
           \/ Logged(i, "closePool", FALSE)
           \/ /\ pools[tasks[i].pool].closed
              /\ \A a, b \in 1..Len(tasks[i].log) :
                   (tasks[i].log[a].ev = "closePool" /\ tasks[i].log[b].ev = "callback")
                     => a < b

====
